---- MODULE Spec2Model ----
(***************************************************************************)
(* FretFlow: the pitch-class, interval, chord and voicing-search utilities *)
(* (src/utils/musicUtils.ts, intervalUtils.ts, chordUtils.ts) as a state   *)
(* machine.  A state holds one call of one exported function: its name     *)
(* (op), its arguments (args), whether it has returned (pc), the value it  *)
(* returned (ret) and what its execution did on the way (trace).  The      *)
(* arrays the caller passed by reference are kept as the call leaves them  *)
(* (inputs), and a caller that makes several calls keeps the calls that    *)
(* have returned (history).  The React components (the quiz trainers and   *)
(* the metronome) are state machines of their own: the state of the        *)
(* mounted component is ui, and each of their steps is one event handler,  *)
(* one effect or one timer callback.                                       *)
(***************************************************************************)
EXTENDS Integers, Sequences, FiniteSets, TLC

VARIABLES op, args, pc, ret, trace, inputs, history, ui

vars == <<op, args, pc, ret, trace, inputs, history, ui>>

(***************************************************************************)
(* JavaScript values.  null is None, a present value v is Some(v); the     *)
(* value undefined read from an array past its ends is the string          *)
(* Undefined, which is no note name.                                       *)
(***************************************************************************)
None == [some |-> FALSE]
Some(v) == [some |-> TRUE, v |-> v]
Undefined == "undefined"

\* A value of the number type and a value of the string type (the field of
\* the other type is unused).
Num(n) == [t |-> "number", n |-> n, s |-> ""]
Str(s) == [t |-> "string", n |-> 0, s |-> s]
\* JavaScript's === on such values: same type and same value.
StrictEq(a, b) == a.t = b.t /\ a.n = b.n /\ a.s = b.s

\* Array.prototype.indexOf: the 0-based index of the first x, or -1.
IndexOf(arr, x) ==
  IF \E i \in 1..Len(arr) : arr[i] = x
  THEN (CHOOSE i \in 1..Len(arr) : arr[i] = x /\ \A j \in 1..(i - 1) : arr[j] # x) - 1
  ELSE -1

\* arr[i] with a 0-based index: undefined outside the array.
At(arr, i) == IF i \in 0..(Len(arr) - 1) THEN arr[i + 1] ELSE Undefined

\* [...arr].sort((a, b) => b - a): a sorted copy of an array of numbers,
\* largest first.  InsertDescending puts x after every element that is not
\* smaller, as a stable sort does.
RECURSIVE InsertDescending(_, _)
InsertDescending(sorted, x) ==
  IF sorted = <<>> THEN <<x>>
  ELSE IF Head(sorted) >= x
       THEN <<Head(sorted)>> \o InsertDescending(Tail(sorted), x)
       ELSE <<x>> \o sorted

\* The comparator written (a, b) => a - b: smallest first.
RECURSIVE InsertAscending(_, _)
InsertAscending(sorted, x) ==
  IF sorted = <<>> THEN <<x>>
  ELSE IF Head(sorted) <= x
       THEN <<Head(sorted)>> \o InsertAscending(Tail(sorted), x)
       ELSE <<x>> \o sorted

RECURSIVE SortAscending(_)
SortAscending(arr) ==
  IF arr = <<>> THEN <<>>
  ELSE InsertAscending(SortAscending(SubSeq(arr, 1, Len(arr) - 1)), arr[Len(arr)])

RECURSIVE SortDescending(_)
SortDescending(arr) ==
  IF arr = <<>> THEN <<>>
  ELSE InsertDescending(SortDescending(SubSeq(arr, 1, Len(arr) - 1)), arr[Len(arr)])

\* positions.sort((a, b) => a.string - b.string): stable, smallest string
\* index first; positions on the same string keep their order.
RECURSIVE InsertByString(_, _)
InsertByString(sorted, p) ==
  IF sorted = <<>> THEN <<p>>
  ELSE IF Head(sorted).string <= p.string
       THEN <<Head(sorted)>> \o InsertByString(Tail(sorted), p)
       ELSE <<p>> \o sorted

\* The positions without the final sort: in the order they were placed,
\* lowest-pitched string first.
AsPlaced(positions) == positions

RECURSIVE SortByString(_)
SortByString(positions) ==
  IF positions = <<>> THEN <<>>
  ELSE InsertByString(SortByString(SubSeq(positions, 1, Len(positions) - 1)),
                      positions[Len(positions)])

(***************************************************************************)
(* musicUtils.ts                                                           *)
(***************************************************************************)
NOTES == <<"C", "C#", "D", "D#", "E", "F", "F#", "G", "G#", "A", "A#", "B">>

\* Low E first: index 0 is the 6th string, index 5 the 1st.
STANDARD_TUNING == <<"E", "A", "D", "G", "B", "E">>

\* getNoteAtFret without the check of startIndex: an open string that is no
\* note counts from index -1, so its fret 1 sounds a C.
getNoteAtFretUnchecked(openStringNote, fretNumber) ==
  LET startIndex == IndexOf(NOTES, openStringNote) IN
  IF startIndex + fretNumber < 0 THEN Undefined
  ELSE At(NOTES, (startIndex + fretNumber) % Len(NOTES))

getNoteAtFret(openStringNote, fretNumber) ==
  LET startIndex == IndexOf(NOTES, openStringNote) IN
  IF startIndex = -1 THEN ""
  ELSE At(NOTES, (startIndex + fretNumber) % Len(NOTES))

(***************************************************************************)
(* String.prototype.toUpperCase on the spellings a caller may pass: the    *)
(* twelve names, their lower-case spellings, and spellings that are no     *)
(* note (a flat, a German H, the empty string).                            *)
(***************************************************************************)
LowerCaseNames ==
  <<"c", "c#", "d", "d#", "e", "f", "f#", "g", "g#", "a", "a#", "b">>

OtherSpellings == <<"Db", "H", "">>

toUpperCase(s) ==
  IF \E i \in 1..Len(LowerCaseNames) : LowerCaseNames[i] = s
  THEN NOTES[IndexOf(LowerCaseNames, s) + 1]
  ELSE IF s = "Db" THEN "DB" ELSE s

Range(seq) == {seq[i] : i \in 1..Len(seq)}

Spellings == Range(NOTES) \cup Range(LowerCaseNames) \cup Range(OtherSpellings)

(***************************************************************************)
(* intervalUtils.ts                                                        *)
(***************************************************************************)
Interval(name, shortName, semitones) ==
  [name |-> name, shortName |-> shortName, semitones |-> semitones]

\* Object.values(INTERVALS): the catalog in insertion order.
INTERVAL_LIST ==
  << Interval("Perfect Unison", "P1", 0),
     Interval("Minor Second", "m2", 1),
     Interval("Major Second", "M2", 2),
     Interval("Minor Third", "m3", 3),
     Interval("Major Third", "M3", 4),
     Interval("Perfect Fourth", "P4", 5),
     Interval("Tritone", "TT", 6),
     Interval("Perfect Fifth", "P5", 7),
     Interval("Minor Sixth", "m6", 8),
     Interval("Major Sixth", "M6", 9),
     Interval("Minor Seventh", "m7", 10),
     Interval("Major Seventh", "M7", 11),
     Interval("Perfect Octave", "P8", 12) >>

IntervalKeys == {INTERVAL_LIST[i].shortName : i \in 1..Len(INTERVAL_LIST)}

\* INTERVALS[key]: the entry stored under the key, undefined (None) otherwise.
INTERVALS(key) ==
  IF key \in IntervalKeys
  THEN Some(CHOOSE e \in Range(INTERVAL_LIST) : e.shortName = key)
  ELSE None

\* getNoteFromInterval without the wrap-around: NOTES is read past its end.
getNoteFromIntervalNoWrap(rootNote, interval) ==
  LET rootIndex == IndexOf(NOTES, toUpperCase(rootNote))
  IN IF rootIndex = -1 THEN None
     ELSE Some(At(NOTES, rootIndex + interval.semitones))

getNoteFromInterval(rootNote, interval) ==
  LET upperCaseRoot == toUpperCase(rootNote)
      rootIndex == IndexOf(NOTES, upperCaseRoot)
  IN IF rootIndex = -1 THEN None
     ELSE Some(At(NOTES, (rootIndex + interval.semitones) % Len(NOTES)))

\* find over a catalog without its entry at index i: the first entry after
\* index i with that many semitones, so the unison is not found.
findBySemitonesAfter(i, semitones) ==
  LET later == {k \in (i + 1)..Len(INTERVAL_LIST) : INTERVAL_LIST[k].semitones = semitones}
  IN IF later = {} THEN None
     ELSE Some(INTERVAL_LIST[CHOOSE k \in later : \A j \in later : k <= j])

\* INTERVAL_LIST.find(interval => interval.semitones === semitones): the
\* first catalog entry, from index i on, with that many semitones.
RECURSIVE findBySemitones(_, _)
findBySemitones(i, semitones) ==
  IF i > Len(INTERVAL_LIST) THEN None
  ELSE IF INTERVAL_LIST[i].semitones = semitones THEN Some(INTERVAL_LIST[i])
  ELSE findBySemitones(i + 1, semitones)

\* getIntervalBetweenNotes with the difference taken the wrong way round.
getIntervalBetweenNotesReversed(note1, note2) ==
  LET index1 == IndexOf(NOTES, toUpperCase(note1))
      index2 == IndexOf(NOTES, toUpperCase(note2))
  IN IF index1 = -1 \/ index2 = -1 THEN None
     ELSE findBySemitones(1, (index1 - index2 + Len(NOTES)) % Len(NOTES))

getIntervalBetweenNotes(note1, note2) ==
  LET index1 == IndexOf(NOTES, toUpperCase(note1))
      index2 == IndexOf(NOTES, toUpperCase(note2))
  IN IF index1 = -1 \/ index2 = -1 THEN None
     ELSE LET semitones == (index2 - index1 + Len(NOTES)) % Len(NOTES)
          IN findBySemitones(1, semitones)

(***************************************************************************)
(* chordUtils.ts: the chord catalog and the conceptual note orders         *)
(***************************************************************************)
ChordQuality(name, intervals) == [name |-> name, intervals |-> intervals]

\* Object.values(CHORD_QUALITIES), in insertion order (abbr, used only for
\* display names, is left out).
CHORD_QUALITY_LIST ==
  << ChordQuality("Major Triad", <<"P1", "M3", "P5">>),
     ChordQuality("Minor Triad", <<"P1", "m3", "P5">>),
     ChordQuality("Diminished Triad", <<"P1", "m3", "TT">>),
     ChordQuality("Augmented Triad", <<"P1", "M3", "m6">>),
     ChordQuality("Major Seventh", <<"P1", "M3", "P5", "M7">>),
     ChordQuality("Minor Seventh", <<"P1", "m3", "P5", "m7">>),
     ChordQuality("Dominant Seventh", <<"P1", "M3", "P5", "m7">>),
     ChordQuality("Minor Seventh Flat Five", <<"P1", "m3", "TT", "m7">>),
     ChordQuality("Diminished Seventh", <<"P1", "m3", "TT", "M6">>),
     ChordQuality("Suspended Fourth", <<"P1", "P4", "P5">>),
     ChordQuality("Suspended Second", <<"P1", "M2", "P5">>) >>

\* The loop of getChord over quality.intervals from index i on, chordNotes
\* being the notes pushed so far: null as soon as a key or a note fails.
RECURSIVE chordNotesFrom(_, _, _, _)
chordNotesFrom(upperCaseRoot, intervals, i, chordNotes) ==
  IF i > Len(intervals) THEN Some(chordNotes)
  ELSE LET interval == INTERVALS(intervals[i]) IN
       IF ~interval.some THEN None
       ELSE LET note == getNoteFromInterval(upperCaseRoot, interval.v) IN
            IF note.some
            THEN chordNotesFrom(upperCaseRoot, intervals, i + 1, Append(chordNotes, note.v))
            ELSE None

\* getChord without toUpperCase: the root is looked up as it was spelt.
getChordAsSpelt(rootNote, quality) ==
  LET rootIndex == IndexOf(NOTES, rootNote)
  IN IF rootIndex = -1 THEN None
     ELSE LET chordNotes == chordNotesFrom(rootNote, quality.intervals, 1, <<>>) IN
          IF ~chordNotes.some THEN None
          ELSE Some([rootNote |-> rootNote, quality |-> quality, notes |-> chordNotes.v])

getChord(rootNote, quality) ==
  LET upperCaseRoot == toUpperCase(rootNote)
      rootIndex == IndexOf(NOTES, upperCaseRoot)
  IN IF rootIndex = -1 THEN None
     ELSE LET chordNotes == chordNotesFrom(upperCaseRoot, quality.intervals, 1, <<>>) IN
          IF ~chordNotes.some THEN None
          ELSE Some([rootNote |-> upperCaseRoot, quality |-> quality, notes |-> chordNotes.v])

\* enum TriadInversion and enum DropVoicingType, and the third member of
\* VoicingType.
ROOT == Num(0)
FIRST == Num(1)
SECOND == Num(2)
DROP_2 == Str("Drop 2")
DROP_3 == Str("Drop 3")
RootPosition == Str("Root Position")

\* getTriadInversionNotes that turns away only chords of fewer than three
\* notes: a chord of four is cut down to its first three.
getTriadInversionNotesCoerced(chord, inversion) ==
  IF Len(chord.notes) < 3 THEN None
  ELSE LET root == chord.notes[1]
           third == chord.notes[2]
           fifth == chord.notes[3]
       IN IF StrictEq(inversion, ROOT) THEN Some(<<root, third, fifth>>)
          ELSE IF StrictEq(inversion, FIRST) THEN Some(<<third, fifth, root>>)
          ELSE IF StrictEq(inversion, SECOND) THEN Some(<<fifth, root, third>>)
          ELSE None

\* getTriadInversionNotes with the orders of the two inversions exchanged.
getTriadInversionNotesSwapped(chord, inversion) ==
  IF Len(chord.notes) # 3 THEN None
  ELSE LET root == chord.notes[1]
           third == chord.notes[2]
           fifth == chord.notes[3]
       IN IF StrictEq(inversion, ROOT) THEN Some(<<root, third, fifth>>)
          ELSE IF StrictEq(inversion, FIRST) THEN Some(<<fifth, root, third>>)
          ELSE IF StrictEq(inversion, SECOND) THEN Some(<<third, fifth, root>>)
          ELSE None

getTriadInversionNotes(chord, inversion) ==
  IF Len(chord.notes) # 3 THEN None
  ELSE LET root == chord.notes[1]
           third == chord.notes[2]
           fifth == chord.notes[3]
       IN IF StrictEq(inversion, ROOT) THEN Some(<<root, third, fifth>>)
          ELSE IF StrictEq(inversion, FIRST) THEN Some(<<third, fifth, root>>)
          ELSE IF StrictEq(inversion, SECOND) THEN Some(<<fifth, root, third>>)
          ELSE None

\* getDrop2VoicingNotes with the order of Drop 3.
getDrop2VoicingNotesAsDrop3(chord) ==
  IF Len(chord.notes) # 4 THEN None
  ELSE Some(<<chord.notes[2], chord.notes[1], chord.notes[3], chord.notes[4]>>)

getDrop2VoicingNotes(chord) ==
  IF Len(chord.notes) # 4 THEN None
  ELSE LET root == chord.notes[1]
           third == chord.notes[2]
           fifth == chord.notes[3]
           seventh == chord.notes[4]
       IN Some(<<fifth, root, third, seventh>>)

getDrop3VoicingNotes(chord) ==
  IF Len(chord.notes) # 4 THEN None
  ELSE LET root == chord.notes[1]
           third == chord.notes[2]
           fifth == chord.notes[3]
           seventh == chord.notes[4]
       IN Some(<<third, root, fifth, seventh>>)

(***************************************************************************)
(* chordUtils.ts: the voicing search                                       *)
(***************************************************************************)
\* openStringMidi[stringIndexVisual]: undefined (None) for any other key.
openStringMidi(stringIndexVisual) ==
  CASE stringIndexVisual = 5 -> Some(40)
    [] stringIndexVisual = 4 -> Some(45)
    [] stringIndexVisual = 3 -> Some(50)
    [] stringIndexVisual = 2 -> Some(55)
    [] stringIndexVisual = 1 -> Some(59)
    [] stringIndexVisual = 0 -> Some(64)
    [] OTHER -> None

getAbsolutePitch(stringIndexVisual, fret) ==
  LET baseMidi == openStringMidi(stringIndexVisual) IN
  IF ~baseMidi.some THEN -1 ELSE baseMidi.v + fret

\* noteOnString that reads the visual index as an index of STANDARD_TUNING:
\* string 5 is taken for the high E string, string 4 for the B string.
noteOnStringUnflipped(stringIndexVisual, fret) ==
  getNoteAtFret(At(STANDARD_TUNING, stringIndexVisual), fret)

\* The note sounding at a fret of a string given by its visual index:
\* getNoteAtFret(STANDARD_TUNING[(STANDARD_TUNING.length - 1) - index], fret).
noteOnString(stringIndexVisual, fret) ==
  getNoteAtFret(At(STANDARD_TUNING, (Len(STANDARD_TUNING) - 1) - stringIndexVisual), fret)

\* scanString without the pitch comparison: the first fret that sounds the
\* target note is taken, whatever its pitch.
RECURSIVE scanStringAnyPitch(_, _, _, _, _, _, _)
scanStringAnyPitch(currentTargetNote, currentStringIndex, previousNoteAbsPitch, maxSearchFret, currentFret, probes, errorPitch) ==
  IF currentFret > maxSearchFret
  THEN [found |-> FALSE, probes |-> probes, errorPitch |-> errorPitch]
  ELSE IF noteOnString(currentStringIndex, currentFret) = currentTargetNote
       THEN [found |-> TRUE, fret |-> currentFret,
             pitch |-> getAbsolutePitch(currentStringIndex, currentFret),
             probes |-> probes + 1, errorPitch |-> errorPitch]
       ELSE scanStringAnyPitch(currentTargetNote, currentStringIndex, previousNoteAbsPitch,
                               maxSearchFret, currentFret + 1, probes + 1, errorPitch)

\* scanString that walks a string from the ceiling down: currentFret counts
\* the frets below maxSearchFret, so the highest fitting fret is taken.
RECURSIVE scanStringFromCeiling(_, _, _, _, _, _, _)
scanStringFromCeiling(currentTargetNote, currentStringIndex, previousNoteAbsPitch, maxSearchFret, currentFret, probes, errorPitch) ==
  IF currentFret > maxSearchFret
  THEN [found |-> FALSE, probes |-> probes, errorPitch |-> errorPitch]
  ELSE LET fret == maxSearchFret - currentFret
           noteAtCurrentPos == noteOnString(currentStringIndex, fret)
           currentNoteAbsPitch == getAbsolutePitch(currentStringIndex, fret)
       IN IF noteAtCurrentPos = currentTargetNote /\ currentNoteAbsPitch > previousNoteAbsPitch
          THEN [found |-> TRUE, fret |-> fret, pitch |-> currentNoteAbsPitch,
                probes |-> probes + 1, errorPitch |-> errorPitch]
          ELSE scanStringFromCeiling(currentTargetNote, currentStringIndex, previousNoteAbsPitch,
                                     maxSearchFret, currentFret + 1, probes + 1, errorPitch)

\* scanString that leaves the string at the first fret sounding the target
\* note: when that fret does not sound above the previous note, the octave
\* above it is not tried.
RECURSIVE scanStringFirstMatchOnly(_, _, _, _, _, _, _)
scanStringFirstMatchOnly(currentTargetNote, currentStringIndex, previousNoteAbsPitch, maxSearchFret, currentFret, probes, errorPitch) ==
  IF currentFret > maxSearchFret
  THEN [found |-> FALSE, probes |-> probes, errorPitch |-> errorPitch]
  ELSE LET noteAtCurrentPos == noteOnString(currentStringIndex, currentFret)
           currentNoteAbsPitch == getAbsolutePitch(currentStringIndex, currentFret)
       IN IF noteAtCurrentPos = currentTargetNote
          THEN IF currentNoteAbsPitch > previousNoteAbsPitch
               THEN [found |-> TRUE, fret |-> currentFret, pitch |-> currentNoteAbsPitch,
                     probes |-> probes + 1, errorPitch |-> errorPitch]
               ELSE [found |-> FALSE, probes |-> probes + 1, errorPitch |-> errorPitch]
          ELSE scanStringFirstMatchOnly(currentTargetNote, currentStringIndex,
                                        previousNoteAbsPitch, maxSearchFret,
                                        currentFret + 1, probes + 1, errorPitch)

\* scanString with the comparison turned round: a fret is taken when it
\* sounds below the previous note.
RECURSIVE scanStringBelowPrevious(_, _, _, _, _, _, _)
scanStringBelowPrevious(currentTargetNote, currentStringIndex, previousNoteAbsPitch, maxSearchFret, currentFret, probes, errorPitch) ==
  IF currentFret > maxSearchFret
  THEN [found |-> FALSE, probes |-> probes, errorPitch |-> errorPitch]
  ELSE LET noteAtCurrentPos == noteOnString(currentStringIndex, currentFret)
           currentNoteAbsPitch == getAbsolutePitch(currentStringIndex, currentFret)
       IN IF noteAtCurrentPos = currentTargetNote /\ currentNoteAbsPitch < previousNoteAbsPitch
          THEN [found |-> TRUE, fret |-> currentFret, pitch |-> currentNoteAbsPitch,
                probes |-> probes + 1, errorPitch |-> errorPitch]
          ELSE scanStringBelowPrevious(currentTargetNote, currentStringIndex,
                                       previousNoteAbsPitch, maxSearchFret,
                                       currentFret + 1, probes + 1, errorPitch)

\* The fret scan of one string (the loop over currentFret): the lowest fret
\* from currentFret on that sounds currentTargetNote with a pitch strictly
\* above previousNoteAbsPitch.  probes counts the frets looked at, errorPitch
\* tells whether a comparison read getAbsolutePitch's error value -1.
RECURSIVE scanString(_, _, _, _, _, _, _)
scanString(currentTargetNote, currentStringIndex, previousNoteAbsPitch, maxSearchFret, currentFret, probes, errorPitch) ==
  IF currentFret > maxSearchFret
  THEN [found |-> FALSE, probes |-> probes, errorPitch |-> errorPitch]
  ELSE LET noteAtCurrentPos == noteOnString(currentStringIndex, currentFret)
           currentNoteAbsPitch == getAbsolutePitch(currentStringIndex, currentFret)
           compared == errorPitch \/ currentNoteAbsPitch = -1 \/ previousNoteAbsPitch = -1
       IN IF noteAtCurrentPos = currentTargetNote
          THEN IF currentNoteAbsPitch > previousNoteAbsPitch
               THEN [found |-> TRUE, fret |-> currentFret, pitch |-> currentNoteAbsPitch,
                     probes |-> probes + 1, errorPitch |-> compared]
               ELSE scanString(currentTargetNote, currentStringIndex, previousNoteAbsPitch,
                               maxSearchFret, currentFret + 1, probes + 1, compared)
          ELSE scanString(currentTargetNote, currentStringIndex, previousNoteAbsPitch,
                          maxSearchFret, currentFret + 1, probes + 1, errorPitch)

\* placeRemaining that forgets "possible = false": a string with no fitting
\* fret ends the loop, and what was placed so far counts as a voicing.
RECURSIVE placeRemainingPartial(_, _, _, _, _, _)
placeRemainingPartial(q, i, previousNoteAbsPitch, potentialPositions, probes, errorPitch) ==
  IF ~(i < q.numNotesExpected)
  THEN [possible |-> TRUE, potentialPositions |-> potentialPositions,
        probes |-> probes, errorPitch |-> errorPitch]
  ELSE LET currentStringIndex == At(q.sortedStringSet, i)
           scan == scanString(At(q.targetNotesInOrder, i), currentStringIndex,
                              previousNoteAbsPitch, q.maxSearchFret, 0, probes, errorPitch)
       IN IF ~scan.found
          THEN [possible |-> TRUE, potentialPositions |-> potentialPositions,
                probes |-> scan.probes, errorPitch |-> scan.errorPitch]
          ELSE placeRemainingPartial(q, i + 1, scan.pitch,
                                     Append(potentialPositions,
                                            [string |-> currentStringIndex, fret |-> scan.fret]),
                                     scan.probes, scan.errorPitch)

\* The loop over the remaining notes and strings, from 0-based index i on.
\* q holds what the loop only reads: targetNotesInOrder, sortedStringSet,
\* numNotesExpected and maxSearchFret.
RECURSIVE placeRemaining(_, _, _, _, _, _)
placeRemaining(q, i, previousNoteAbsPitch, potentialPositions, probes, errorPitch) ==
  IF ~(i < q.numNotesExpected)
  THEN [possible |-> TRUE, potentialPositions |-> potentialPositions,
        probes |-> probes, errorPitch |-> errorPitch]
  ELSE LET currentTargetNote == At(q.targetNotesInOrder, i)
           currentStringIndex == At(q.sortedStringSet, i)
           scan == scanString(currentTargetNote, currentStringIndex, previousNoteAbsPitch,
                              q.maxSearchFret, 0, probes, errorPitch)
       IN IF ~scan.found
          THEN [possible |-> FALSE, potentialPositions |-> potentialPositions,
                probes |-> scan.probes, errorPitch |-> scan.errorPitch]
          ELSE placeRemaining(q, i + 1, scan.pitch,
                              Append(potentialPositions,
                                     [string |-> currentStringIndex, fret |-> scan.fret]),
                              scan.probes, scan.errorPitch)

\* searchFrom with the loop condition startFret <= maxSearchFret + 1: one
\* start fret past the ceiling is looked at.
RECURSIVE searchFromPastCeiling(_, _, _)
searchFromPastCeiling(q, startFret, t) ==
  IF startFret > q.maxSearchFret + 1
  THEN [value |-> None, trace |-> [t EXCEPT !.site = "no voicing found"]]
  ELSE LET lowestStringIndex == At(q.sortedStringSet, 0)
           lowestTargetNote == At(q.targetNotesInOrder, 0)
           noteAtStartPos == noteOnString(lowestStringIndex, startFret)
           looked == [t EXCEPT !.starts = @ + 1]
       IN IF noteAtStartPos # lowestTargetNote
          THEN searchFromPastCeiling(q, startFret + 1, looked)
          ELSE LET rest == placeRemaining(q, 1, getAbsolutePitch(lowestStringIndex, startFret),
                                          <<[string |-> lowestStringIndex, fret |-> startFret]>>,
                                          0, t.errorPitch)
                   after == [looked EXCEPT
                               !.probes = IF rest.probes > @ THEN rest.probes ELSE @,
                               !.errorPitch = rest.errorPitch]
               IN IF rest.possible
                  THEN [value |-> Some(SortByString(rest.potentialPositions)),
                        trace |-> [after EXCEPT !.site = "voicing"]]
                  ELSE searchFromPastCeiling(q, startFret + 1, [after EXCEPT !.abandoned = @ + 1])

\* The loop over startFret.  t is what the execution did so far: starts, the
\* start frets looked at; abandoned, those that carried the lowest note and
\* could not be completed; probes, the frets looked at by the scans of one
\* start fret, at most; errorPitch as above.
RECURSIVE searchFrom(_, _, _)
searchFrom(q, startFret, t) ==
  IF startFret > q.maxSearchFret
  THEN [value |-> None, trace |-> [t EXCEPT !.site = "no voicing found"]]
  ELSE LET lowestStringIndex == At(q.sortedStringSet, 0)
           lowestTargetNote == At(q.targetNotesInOrder, 0)
           noteAtStartPos == noteOnString(lowestStringIndex, startFret)
           looked == [t EXCEPT !.starts = @ + 1]
       IN IF noteAtStartPos # lowestTargetNote
          THEN searchFrom(q, startFret + 1, looked)
          ELSE LET rest == placeRemaining(q, 1, getAbsolutePitch(lowestStringIndex, startFret),
                                          <<[string |-> lowestStringIndex, fret |-> startFret]>>,
                                          0, t.errorPitch)
                   after == [looked EXCEPT
                               !.probes = IF rest.probes > @ THEN rest.probes ELSE @,
                               !.errorPitch = rest.errorPitch]
               IN IF rest.possible
                  THEN [value |-> Some(SortByString(rest.potentialPositions)),
                        trace |-> [after EXCEPT !.site = "voicing"]]
                  ELSE searchFrom(q, startFret + 1, [after EXCEPT !.abandoned = @ + 1])

DefaultMaxSearchFret == 12

NoTrace == [site |-> "", starts |-> 0, abandoned |-> 0, probes |-> 0, errorPitch |-> FALSE]

\* stringSetVisualIndices.sort((a, b) => b - a) without the copy: the
\* caller's array is sorted where it is.
sortInPlace(stringSetVisualIndices) ==
  [sortedStringSet |-> SortDescending(stringSetVisualIndices),
   stringSetVisualIndices |-> SortDescending(stringSetVisualIndices)]

\* [...stringSetVisualIndices] without the sort: the strings are walked in
\* the order they were passed.
spreadOnly(stringSetVisualIndices) ==
  [sortedStringSet |-> stringSetVisualIndices,
   stringSetVisualIndices |-> stringSetVisualIndices]

\* [...stringSetVisualIndices].sort((a, b) => b - a): the sorted array is a
\* new one, and the caller's array is left as it is.
spreadAndSort(stringSetVisualIndices) ==
  [sortedStringSet |-> SortDescending(stringSetVisualIndices),
   stringSetVisualIndices |-> stringSetVisualIndices]

\* The target notes and the note count the voicing type asks for (step 1):
\* supported is FALSE for a voicing type that is none of the six.
targetOf(chord, voicingType) ==
  IF StrictEq(voicingType, ROOT) \/ StrictEq(voicingType, FIRST) \/ StrictEq(voicingType, SECOND)
  THEN [supported |-> TRUE, targetNotesInOrder |-> getTriadInversionNotes(chord, voicingType),
        numNotesExpected |-> 3]
  ELSE IF StrictEq(voicingType, DROP_2)
  THEN [supported |-> TRUE, targetNotesInOrder |-> getDrop2VoicingNotes(chord),
        numNotesExpected |-> 4]
  ELSE IF StrictEq(voicingType, DROP_3)
  THEN [supported |-> TRUE, targetNotesInOrder |-> getDrop3VoicingNotes(chord),
        numNotesExpected |-> 4]
  ELSE IF StrictEq(voicingType, RootPosition)
  THEN [supported |-> TRUE, targetNotesInOrder |-> Some(chord.notes),
        numNotesExpected |-> Len(chord.notes)]
  ELSE [supported |-> FALSE]

\* findVoicingOnStrings that turns away only string sets that are too short:
\* on a longer set it searches the lowest strings.
findVoicingOnStringsShortOnly(chord, voicingType, stringSetVisualIndices, maxSearchFretArg) ==
  LET maxSearchFret ==
        IF maxSearchFretArg.some THEN maxSearchFretArg.v ELSE DefaultMaxSearchFret
      target == targetOf(chord, voicingType)
      untouched == [notes |-> chord.notes, stringSetVisualIndices |-> stringSetVisualIndices]
      Early(site) == [value |-> None, trace |-> [NoTrace EXCEPT !.site = site],
                      inputs |-> untouched]
  IN IF ~target.supported THEN Early("unsupported voicing type")
     ELSE IF ~target.targetNotesInOrder.some THEN Early("voicing not applicable")
     ELSE IF Len(target.targetNotesInOrder.v) # target.numNotesExpected
     THEN Early("note count mismatch")
     ELSE IF Len(stringSetVisualIndices) < target.numNotesExpected
     THEN Early("string count mismatch")
     ELSE LET sorting == spreadAndSort(stringSetVisualIndices)
              found == searchFrom([targetNotesInOrder |-> target.targetNotesInOrder.v,
                                   sortedStringSet |-> sorting.sortedStringSet,
                                   numNotesExpected |-> target.numNotesExpected,
                                   maxSearchFret |-> maxSearchFret],
                                  0, NoTrace)
          IN [value |-> found.value, trace |-> found.trace,
              inputs |-> [notes |-> chord.notes,
                          stringSetVisualIndices |-> sorting.stringSetVisualIndices]]

\* findVoicingOnStrings that answers an empty array, not null, when the
\* voicing type does not fit the chord.
findVoicingOnStringsEmptyArray(chord, voicingType, stringSetVisualIndices, maxSearchFretArg) ==
  LET maxSearchFret ==
        IF maxSearchFretArg.some THEN maxSearchFretArg.v ELSE DefaultMaxSearchFret
      target == targetOf(chord, voicingType)
      untouched == [notes |-> chord.notes, stringSetVisualIndices |-> stringSetVisualIndices]
      Early(site) == [value |-> None, trace |-> [NoTrace EXCEPT !.site = site],
                      inputs |-> untouched]
  IN IF ~target.supported THEN Early("unsupported voicing type")
     ELSE IF ~target.targetNotesInOrder.some
     THEN [value |-> Some(<<>>), trace |-> [NoTrace EXCEPT !.site = "voicing not applicable"],
           inputs |-> untouched]
     ELSE IF Len(target.targetNotesInOrder.v) # target.numNotesExpected
     THEN Early("note count mismatch")
     ELSE IF Len(stringSetVisualIndices) # target.numNotesExpected
     THEN Early("string count mismatch")
     ELSE LET sorting == spreadAndSort(stringSetVisualIndices)
              found == searchFrom([targetNotesInOrder |-> target.targetNotesInOrder.v,
                                   sortedStringSet |-> sorting.sortedStringSet,
                                   numNotesExpected |-> target.numNotesExpected,
                                   maxSearchFret |-> maxSearchFret],
                                  0, NoTrace)
          IN [value |-> found.value, trace |-> found.trace,
              inputs |-> [notes |-> chord.notes,
                          stringSetVisualIndices |-> sorting.stringSetVisualIndices]]

\* findVoicingOnStrings whose start fret lives outside the function and is
\* not reset: the search of a call starts one fret higher for every call that
\* returned before it.
findVoicingOnStringsResuming(chord, voicingType, stringSetVisualIndices, maxSearchFretArg) ==
  LET maxSearchFret ==
        IF maxSearchFretArg.some THEN maxSearchFretArg.v ELSE DefaultMaxSearchFret
      target == targetOf(chord, voicingType)
      untouched == [notes |-> chord.notes, stringSetVisualIndices |-> stringSetVisualIndices]
      Early(site) == [value |-> None, trace |-> [NoTrace EXCEPT !.site = site],
                      inputs |-> untouched]
  IN IF ~target.supported THEN Early("unsupported voicing type")
     ELSE IF ~target.targetNotesInOrder.some THEN Early("voicing not applicable")
     ELSE IF Len(target.targetNotesInOrder.v) # target.numNotesExpected
     THEN Early("note count mismatch")
     ELSE IF Len(stringSetVisualIndices) # target.numNotesExpected
     THEN Early("string count mismatch")
     ELSE LET sorting == spreadAndSort(stringSetVisualIndices)
              found == searchFrom([targetNotesInOrder |-> target.targetNotesInOrder.v,
                                   sortedStringSet |-> sorting.sortedStringSet,
                                   numNotesExpected |-> target.numNotesExpected,
                                   maxSearchFret |-> maxSearchFret],
                                  Len(history), NoTrace)
          IN [value |-> found.value, trace |-> found.trace,
              inputs |-> [notes |-> chord.notes,
                          stringSetVisualIndices |-> sorting.stringSetVisualIndices]]

\* findVoicingOnStrings: the value returned, the trace of the execution and
\* the arrays of the caller (chord.notes and the string set) as the call
\* leaves them: no statement writes to either, and targetNotesInOrder, which
\* is chord.notes itself for 'Root Position', is only read.
\* maxSearchFretArg is None when the caller leaves the parameter out.
findVoicingOnStrings(chord, voicingType, stringSetVisualIndices, maxSearchFretArg) ==
  LET maxSearchFret ==
        IF maxSearchFretArg.some THEN maxSearchFretArg.v ELSE DefaultMaxSearchFret
      target == targetOf(chord, voicingType)
      untouched == [notes |-> chord.notes, stringSetVisualIndices |-> stringSetVisualIndices]
      Early(site) == [value |-> None, trace |-> [NoTrace EXCEPT !.site = site],
                      inputs |-> untouched]
  IN IF ~target.supported THEN Early("unsupported voicing type")
     ELSE IF ~target.targetNotesInOrder.some THEN Early("voicing not applicable")
     ELSE IF Len(target.targetNotesInOrder.v) # target.numNotesExpected
     THEN Early("note count mismatch")
     ELSE IF Len(stringSetVisualIndices) # target.numNotesExpected
     THEN Early("string count mismatch")
     ELSE LET sorting == spreadAndSort(stringSetVisualIndices)
              found == searchFrom([targetNotesInOrder |-> target.targetNotesInOrder.v,
                                   sortedStringSet |-> sorting.sortedStringSet,
                                   numNotesExpected |-> target.numNotesExpected,
                                   maxSearchFret |-> maxSearchFret],
                                  0, NoTrace)
          IN [value |-> found.value, trace |-> found.trace,
              inputs |-> [notes |-> chord.notes,
                          stringSetVisualIndices |-> sorting.stringSetVisualIndices]]

(***************************************************************************)
(* scaleUtils.ts and calculateScalePositions of ScaleTrainer.tsx           *)
(***************************************************************************)
ScaleFormula(name, intervals) == [name |-> name, intervals |-> intervals]

\* The keys of SCALE_FORMULAS, in insertion order.
ScaleKeys ==
  <<"major", "naturalMinor", "harmonicMinor", "melodicMinorAsc",
    "majorPentatonic", "minorPentatonic", "blues">>

\* Object.values(SCALE_FORMULAS).
SCALE_FORMULA_LIST ==
  << ScaleFormula("Major Scale", <<"P1", "M2", "M3", "P4", "P5", "M6", "M7">>),
     ScaleFormula("Natural Minor Scale", <<"P1", "M2", "m3", "P4", "P5", "m6", "m7">>),
     ScaleFormula("Harmonic Minor Scale", <<"P1", "M2", "m3", "P4", "P5", "m6", "M7">>),
     ScaleFormula("Melodic Minor (Ascending)", <<"P1", "M2", "m3", "P4", "P5", "M6", "M7">>),
     ScaleFormula("Major Pentatonic Scale", <<"P1", "M2", "M3", "P5", "M6">>),
     ScaleFormula("Minor Pentatonic Scale", <<"P1", "m3", "P4", "P5", "m7">>),
     ScaleFormula("Blues Scale", <<"P1", "m3", "P4", "TT", "P5", "m7">>) >>

\* SCALE_FORMULAS[key]: undefined (None) for a key the dictionary lacks.
SCALE_FORMULAS(key) ==
  IF IndexOf(ScaleKeys, key) = -1 THEN None
  ELSE Some(SCALE_FORMULA_LIST[IndexOf(ScaleKeys, key) + 1])

\* The loop of getScaleNotes over formula.intervals from index i on,
\* scaleNotes being the notes pushed so far.
RECURSIVE scaleNotesFrom(_, _, _, _)
scaleNotesFrom(upperCaseRoot, intervals, i, scaleNotes) ==
  IF i > Len(intervals) THEN Some(scaleNotes)
  ELSE LET interval == INTERVALS(intervals[i]) IN
       IF ~interval.some THEN None
       ELSE LET note == getNoteFromInterval(upperCaseRoot, interval.v) IN
            IF note.some
            THEN scaleNotesFrom(upperCaseRoot, intervals, i + 1, Append(scaleNotes, note.v))
            ELSE None

getScaleNotes(rootNote, formula) ==
  LET upperCaseRoot == toUpperCase(rootNote)
      rootIndex == IndexOf(NOTES, upperCaseRoot)
  IN IF rootIndex = -1 THEN None
     ELSE scaleNotesFrom(upperCaseRoot, formula.intervals, 1, <<>>)

\* const maxFrets of ScaleTrainer: the last fret drawn.
maxFrets == 12

\* calculateScalePositions that stops one fret early (f < maxFrets).
calculateScalePositionsBelowMaxFrets(settings) ==
  LET formula == SCALE_FORMULAS(settings.scaleKey) IN
  IF ~formula.some THEN [value |-> <<>>, site |-> "invalid scale"]
  ELSE LET scaleNotes == getScaleNotes(settings.rootNote, formula.v) IN
       IF ~scaleNotes.some THEN [value |-> <<>>, site |-> "no scale notes"]
       ELSE LET strings == Len(STANDARD_TUNING)
                Position(k) ==
                  LET s == (k - 1) \div maxFrets
                      f == (k - 1) % maxFrets
                      currentNote ==
                        getNoteAtFret(At(STANDARD_TUNING, (Len(STANDARD_TUNING) - 1) - s), f)
                  IN [string |-> s, fret |-> f, label |-> currentNote,
                      color |-> IF currentNote = settings.rootNote
                                THEN "bg-red-500" ELSE "bg-blue-400"]
                Highlighted(p) == p.label # "" /\ p.label \in Range(scaleNotes.v)
            IN [value |-> SelectSeq([k \in 1..(strings * maxFrets) |-> Position(k)],
                                    Highlighted),
                site |-> "positions"]

\* calculateScalePositions: the highlighted notes, string by string (s from
\* 0) and fret by fret (f from 0 to maxFrets) within a string, and the exit
\* taken (the two early exits return [] and set settingsError).  Position(k)
\* is the k-th pair (s, f) the two loops visit.
calculateScalePositions(settings) ==
  LET formula == SCALE_FORMULAS(settings.scaleKey) IN
  IF ~formula.some THEN [value |-> <<>>, site |-> "invalid scale"]
  ELSE LET scaleNotes == getScaleNotes(settings.rootNote, formula.v) IN
       IF ~scaleNotes.some THEN [value |-> <<>>, site |-> "no scale notes"]
       ELSE LET strings == Len(STANDARD_TUNING)
                Position(k) ==
                  LET s == (k - 1) \div (maxFrets + 1)
                      f == (k - 1) % (maxFrets + 1)
                      currentNote ==
                        getNoteAtFret(At(STANDARD_TUNING, (Len(STANDARD_TUNING) - 1) - s), f)
                  IN [string |-> s, fret |-> f, label |-> currentNote,
                      color |-> IF currentNote = settings.rootNote
                                THEN "bg-red-500" ELSE "bg-blue-400"]
                Highlighted(p) == p.label # "" /\ p.label \in Range(scaleNotes.v)
            IN [value |-> SelectSeq([k \in 1..(strings * (maxFrets + 1)) |-> Position(k)],
                                    Highlighted),
                site |-> "positions"]

(***************************************************************************)
(* The calls.  Arguments are drawn from the catalogs of the program and    *)
(* from the bounded sets below.                                            *)
(***************************************************************************)
\* The fret ceilings passed as maxSearchFret, besides leaving it out.
LowCeiling == 4
HighCeiling == 14

Ceilings == {None, Some(0), Some(LowCeiling), Some(DefaultMaxSearchFret), Some(HighCeiling)}

\* Every chord getChord builds from a canonical root and a catalog quality,
\* and two Chord values a caller can build by hand, of two and of five notes.
CatalogChords ==
  {getChord(NOTES[r], CHORD_QUALITY_LIST[k]).v :
     r \in 1..Len(NOTES), k \in 1..Len(CHORD_QUALITY_LIST)}

OtherChords ==
  {[rootNote |-> "C", quality |-> ChordQuality("Power Chord", <<"P1", "P5">>),
    notes |-> <<"C", "G">>],
   [rootNote |-> "E", quality |-> ChordQuality("Dominant Ninth", <<"P1", "M3", "P5", "m7", "M2">>),
    notes |-> <<"E", "G#", "B", "D", "F#">>]}

Chords == CatalogChords \cup OtherChords

\* The six voicing types and two values that are none of them.
VoicingTypes == {ROOT, FIRST, SECOND, DROP_2, DROP_3, RootPosition, Num(3), Str("Drop 4")}

\* AVAILABLE_STRING_SETS of ChordTrainer, the sets its callers pass.
AVAILABLE_STRING_SETS ==
  {<<2, 3, 4>>, <<1, 2, 3>>, <<0, 1, 2>>, <<3, 4, 5>>, <<1, 2, 3, 4>>, <<0, 1, 2, 3>>, <<>>}

\* Other arrays of string indices: the remaining adjacent set, sets that
\* skip strings, sets in another order, sets that repeat a string, sets of
\* another length, and sets with an index that is no string.
OtherStringSets ==
  {<<2, 3, 4, 5>>, <<0, 2, 4>>, <<1, 3, 5>>, <<0, 1, 3, 5>>, <<0, 2, 3, 5>>,
   <<5, 4, 3>>, <<4, 2, 3>>, <<4, 3, 2, 1>>, <<3, 1, 4, 2>>,
   <<3, 3, 4>>, <<2, 2, 2>>, <<1, 1, 2, 3>>,
   <<4, 5>>, <<0, 1, 2, 3, 4>>,
   <<4, 5, 6>>, <<-1, 0, 1>>, <<3, 4, 5, 6>>}

StringSets == AVAILABLE_STRING_SETS \cup OtherStringSets

\* The qualities passed to getChord: the catalog, and a ChordQuality a caller
\* can build by hand whose second key is no key of INTERVALS.
OtherQualities == {ChordQuality("Added Ninth", <<"P1", "M9", "P5">>)}

Qualities == Range(CHORD_QUALITY_LIST) \cup OtherQualities

\* The arrays a call receives by reference: the notes of its chord and its
\* string set (empty for a call that has none).
InputsOf(a) ==
  [notes |-> IF "chord" \in DOMAIN a THEN a.chord.notes ELSE <<>>,
   stringSetVisualIndices |->
     IF "stringSetVisualIndices" \in DOMAIN a THEN a.stringSetVisualIndices ELSE <<>>]

\* No component is mounted while the utilities are called on their own.
NoUi == [component |-> ""]

Called(name, a) ==
  /\ op = name
  /\ args = a
  /\ pc = "called"
  /\ ret = None
  /\ trace = NoTrace
  /\ inputs = InputsOf(a)
  /\ history = <<>>
  /\ ui = NoUi

Init ==
  \/ \E chord \in Chords, voicingType \in VoicingTypes,
        stringSet \in StringSets, maxSearchFret \in Ceilings :
       Called("findVoicingOnStrings",
              [chord |-> chord, voicingType |-> voicingType,
               stringSetVisualIndices |-> stringSet, maxSearchFret |-> maxSearchFret])
  \/ \E rootNote \in Spellings, quality \in Qualities :
       Called("getChord", [rootNote |-> rootNote, quality |-> quality])
  \/ \E chord \in Chords, inversion \in VoicingTypes :
       Called("getTriadInversionNotes", [chord |-> chord, inversion |-> inversion])
  \/ \E chord \in Chords :
       Called("getDrop2VoicingNotes", [chord |-> chord])
  \/ \E chord \in Chords :
       Called("getDrop3VoicingNotes", [chord |-> chord])
  \/ \E rootNote \in Spellings, i \in 1..Len(INTERVAL_LIST) :
       Called("getNoteFromInterval", [rootNote |-> rootNote, interval |-> INTERVAL_LIST[i]])
  \/ \E note1 \in Spellings, note2 \in Spellings :
       Called("getIntervalBetweenNotes", [note1 |-> note1, note2 |-> note2, of |-> None])
  \/ \E rootNote \in Spellings, formula \in Range(SCALE_FORMULA_LIST) :
       Called("getScaleNotes", [rootNote |-> rootNote, formula |-> formula])
  \/ \E rootNote \in Range(NOTES), scaleKey \in Range(ScaleKeys) :
       Called("calculateScalePositions",
              [settings |-> [rootNote |-> rootNote, scaleKey |-> scaleKey]])

Return(value) ==
  /\ pc = "called"
  /\ pc' = "returned"
  /\ ret' = value
  /\ UNCHANGED <<op, args, history, ui>>

FindVoicingOnStrings ==
  /\ op = "findVoicingOnStrings"
  /\ LET r == findVoicingOnStrings(args.chord, args.voicingType,
                                   args.stringSetVisualIndices, args.maxSearchFret)
     IN Return(r.value) /\ trace' = r.trace /\ inputs' = r.inputs

GetChord ==
  /\ op = "getChord"
  /\ Return(getChord(args.rootNote, args.quality))
  /\ UNCHANGED <<trace, inputs>>

GetTriadInversionNotes ==
  /\ op = "getTriadInversionNotes"
  /\ Return(getTriadInversionNotes(args.chord, args.inversion))
  /\ UNCHANGED <<trace, inputs>>

GetDrop2VoicingNotes ==
  /\ op = "getDrop2VoicingNotes"
  /\ Return(getDrop2VoicingNotes(args.chord))
  /\ UNCHANGED <<trace, inputs>>

GetDrop3VoicingNotes ==
  /\ op = "getDrop3VoicingNotes"
  /\ Return(getDrop3VoicingNotes(args.chord))
  /\ UNCHANGED <<trace, inputs>>

GetNoteFromInterval ==
  /\ op = "getNoteFromInterval"
  /\ Return(getNoteFromInterval(args.rootNote, args.interval))
  /\ UNCHANGED <<trace, inputs>>

GetIntervalBetweenNotes ==
  /\ op = "getIntervalBetweenNotes"
  /\ Return(getIntervalBetweenNotes(args.note1, args.note2))
  /\ UNCHANGED <<trace, inputs>>

GetScaleNotes ==
  /\ op = "getScaleNotes"
  /\ Return(getScaleNotes(args.rootNote, args.formula))
  /\ UNCHANGED <<trace, inputs>>

\* The effect of ScaleTrainer that runs calculateScalePositions with the
\* applied settings: a root applySettings found in NOTES and a key it found
\* in SCALE_FORMULAS.
CalculateScalePositions ==
  /\ op = "calculateScalePositions"
  /\ LET r == calculateScalePositions(args.settings)
     IN Return(Some(r.value)) /\ trace' = [NoTrace EXCEPT !.site = r.site]
  /\ UNCHANGED inputs

\* The caller of the round trip: the note getNoteFromInterval returned is
\* passed, with the same root, to getIntervalBetweenNotes; of remembers the
\* interval the note came from.
IntervalOfReturnedNote ==
  /\ op = "getNoteFromInterval"
  /\ pc = "returned"
  /\ ret.some
  /\ op' = "getIntervalBetweenNotes"
  /\ args' = [note1 |-> args.rootNote, note2 |-> ret.v, of |-> Some(args.interval)]
  /\ pc' = "called"
  /\ ret' = None
  /\ UNCHANGED <<trace, inputs, history, ui>>

Next ==
  \/ FindVoicingOnStrings
  \/ GetChord
  \/ GetTriadInversionNotes
  \/ GetDrop2VoicingNotes
  \/ GetDrop3VoicingNotes
  \/ GetNoteFromInterval
  \/ GetIntervalBetweenNotes
  \/ IntervalOfReturnedNote
  \/ GetScaleNotes
  \/ CalculateScalePositions

Spec == Init /\ [][Next]_vars

(***************************************************************************)
(* A caller that makes one call after another, as generateQuestion of      *)
(* ChordTrainer does (getChord, then findVoicingOnStrings with a shared    *)
(* string set of AVAILABLE_STRING_SETS, then getChord for the distractors, *)
(* and again at the next question).  Every call is drawn from              *)
(* SessionCalls; the calls that returned are kept in history.              *)
(***************************************************************************)
\* The number of calls a caller makes before its last one, at most.
MaxEarlierCalls == 3

Call(name, a) == [op |-> name, args |-> a]

\* The chord of a canonical root and the k-th quality of the catalog.
CatalogChord(rootNote, k) == getChord(rootNote, CHORD_QUALITY_LIST[k]).v

SessionCalls ==
  {Call("findVoicingOnStrings",
        [chord |-> CatalogChord("E", 2), voicingType |-> ROOT,
         stringSetVisualIndices |-> <<3, 4, 5>>, maxSearchFret |-> Some(12)]),
   Call("findVoicingOnStrings",
        [chord |-> CatalogChord("G", 7), voicingType |-> DROP_2,
         stringSetVisualIndices |-> <<1, 2, 3, 4>>, maxSearchFret |-> None]),
   Call("findVoicingOnStrings",
        [chord |-> CatalogChord("C", 1), voicingType |-> RootPosition,
         stringSetVisualIndices |-> <<4, 2, 3>>, maxSearchFret |-> Some(LowCeiling)]),
   Call("findVoicingOnStrings",
        [chord |-> CatalogChord("G", 7), voicingType |-> FIRST,
         stringSetVisualIndices |-> <<2, 3, 4>>, maxSearchFret |-> Some(12)]),
   Call("getChord", [rootNote |-> "e", quality |-> CHORD_QUALITY_LIST[2]]),
   Call("getTriadInversionNotes", [chord |-> CatalogChord("E", 2), inversion |-> SECOND]),
   Call("getDrop2VoicingNotes", [chord |-> CatalogChord("G", 7)]),
   Call("getDrop3VoicingNotes", [chord |-> CatalogChord("G", 7)]),
   Call("getNoteFromInterval", [rootNote |-> "E", interval |-> INTERVAL_LIST[4]]),
   Call("getIntervalBetweenNotes", [note1 |-> "E", note2 |-> "G", of |-> None])}

InitSession == \E c \in SessionCalls : Called(c.op, c.args)

\* The caller takes the value returned and makes its next call.
CallNext ==
  /\ pc = "returned"
  /\ Len(history) < MaxEarlierCalls
  /\ history' = Append(history, [op |-> op, args |-> args, ret |-> ret])
  /\ \E c \in SessionCalls :
       /\ op' = c.op
       /\ args' = c.args
       /\ inputs' = InputsOf(c.args)
  /\ pc' = "called"
  /\ ret' = None
  /\ trace' = NoTrace
  /\ UNCHANGED ui

NextSession ==
  \/ FindVoicingOnStrings
  \/ GetChord
  \/ GetTriadInversionNotes
  \/ GetDrop2VoicingNotes
  \/ GetDrop3VoicingNotes
  \/ GetNoteFromInterval
  \/ GetIntervalBetweenNotes
  \/ CallNext

SpecSession == InitSession /\ [][NextSession]_vars

(***************************************************************************)
(* Properties                                                              *)
(***************************************************************************)
Returned(name) == op = name /\ pc = "returned"

\* A call of findVoicingOnStrings that returned a voicing.
VoicingReturned == Returned("findVoicingOnStrings") /\ ret.some

\* The fret ceiling in force in a call of findVoicingOnStrings.
CeilingOf(a) == IF a.maxSearchFret.some THEN a.maxSearchFret.v ELSE DefaultMaxSearchFret

\* Open-string base plus fret, for a position on one of the six strings.
PitchOf(p) == openStringMidi(p.string).v + p.fret

\* C1: whenever findVoicingOnStrings returns a voicing, the absolute pitches
\* of its positions strictly increase from the lowest-pitched string (the
\* highest visual index) to the highest-pitched one: a position on a
\* lower-pitched string sounds strictly lower, and no two positions sound
\* the same pitch.
C1_PitchesStrictlyAscend ==
  VoicingReturned =>
    \A i, j \in 1..Len(ret.v) :
      /\ ret.v[i].string > ret.v[j].string => PitchOf(ret.v[i]) < PitchOf(ret.v[j])
      /\ i # j => PitchOf(ret.v[i]) # PitchOf(ret.v[j])

\* A voicing in which the pitch comparison decided: some position is not on
\* the lowest fret of its string that sounds its note.
C1_Witness ==
  /\ VoicingReturned
  /\ \E i \in 1..Len(ret.v) : \E f \in 0..(ret.v[i].fret - 1) :
       noteOnString(ret.v[i].string, f) = noteOnString(ret.v[i].string, ret.v[i].fret)

\* The strings of a string set from the lowest-pitched to the highest-pitched:
\* s is the i-th of them when fewer than i entries of the set are open strings
\* below s and at least i are not above it.
IsIthLowest(stringSet, s, i) ==
  LET below == Cardinality({k \in 1..Len(stringSet) :
                             openStringMidi(stringSet[k]).v < openStringMidi(s).v})
      upTo == Cardinality({k \in 1..Len(stringSet) :
                            openStringMidi(stringSet[k]).v <= openStringMidi(s).v})
  IN below < i /\ i <= upTo

\* C2: whenever findVoicingOnStrings returns a voicing, the i-th note of the
\* voicing order sounds on the i-th string of the set counted from the
\* lowest-pitched string: every target note has its position there, and every
\* position is such a one.
C2_NotesOnStringsInOrder ==
  VoicingReturned =>
    LET target == targetOf(args.chord, args.voicingType).targetNotesInOrder.v
        set == args.stringSetVisualIndices
        Carries(p, i) ==
          /\ IsIthLowest(set, p.string, i)
          /\ getNoteAtFret(At(STANDARD_TUNING, 5 - p.string), p.fret) = target[i]
    IN /\ \A i \in 1..Len(target) : \E k \in 1..Len(ret.v) : Carries(ret.v[k], i)
       /\ \A k \in 1..Len(ret.v) : \E i \in 1..Len(target) : Carries(ret.v[k], i)

\* A voicing on a string set passed highest-pitched string first, whose first
\* target note therefore sits on the string passed last.
C2_Witness ==
  /\ VoicingReturned
  /\ args.stringSetVisualIndices = <<1, 2, 3, 4>>
  /\ StrictEq(args.voicingType, DROP_3)
  /\ \E k \in 1..Len(ret.v) :
       /\ ret.v[k].string = 4
       /\ noteOnString(4, ret.v[k].fret) = args.chord.notes[2]

\* The note count a voicing type asks for.
RequiredCount(chord, voicingType) ==
  IF voicingType \in {ROOT, FIRST, SECOND} THEN 3
  ELSE IF voicingType \in {DROP_2, DROP_3} THEN 4
  ELSE Len(chord.notes)

\* C3: findVoicingOnStrings is all-or-nothing: a result has as many positions
\* as the string set has entries, which is the note count of the voicing
\* type, and every fret of it lies in 0..maxSearchFret.
C3_AllOrNothing ==
  VoicingReturned =>
    /\ Len(ret.v) = Len(args.stringSetVisualIndices)
    /\ Len(ret.v) = RequiredCount(args.chord, args.voicingType)
    /\ \A k \in 1..Len(ret.v) : ret.v[k].fret \in 0..CeilingOf(args)

\* A four-note voicing that reaches the fret ceiling: one fret more and the
\* bound would be broken.
C3_Witness ==
  /\ VoicingReturned
  /\ Len(ret.v) = 4
  /\ \E k \in 1..Len(ret.v) : ret.v[k].fret = CeilingOf(args)

TriadInversions == {ROOT, FIRST, SECOND}
DropVoicings == {DROP_2, DROP_3}
SupportedVoicingTypes == TriadInversions \cup DropVoicings \cup {RootPosition}

\* C4: a string set whose length differs from the note count of the voicing
\* type makes findVoicingOnStrings return null for every chord and ceiling,
\* before any fret is looked at: the loop over start frets is never entered.
C4_LengthMismatchNoScan ==
  ( /\ Returned("findVoicingOnStrings")
    /\ args.voicingType \in SupportedVoicingTypes
    /\ Len(args.stringSetVisualIndices) # RequiredCount(args.chord, args.voicingType) )
  => /\ ret = None
     /\ trace.starts = 0
     /\ trace.probes = 0

\* A string set longer than the voicing, whose lowest strings could have
\* carried it, turned away for its length.
C4_Witness ==
  /\ Returned("findVoicingOnStrings")
  /\ trace.site = "string count mismatch"
  /\ Len(args.stringSetVisualIndices) > RequiredCount(args.chord, args.voicingType)
  /\ ret = None

\* A voicing type that does not fit the number of notes of the chord.
Incompatible(chord, voicingType) ==
  \/ voicingType \in TriadInversions /\ Len(chord.notes) # 3
  \/ voicingType \in DropVoicings /\ Len(chord.notes) # 4

\* C5: a voicing type that does not fit the chord's note count yields no
\* result and is never coerced: getTriadInversionNotes returns null on a
\* four-note chord, getDrop2VoicingNotes and getDrop3VoicingNotes return null
\* on a three-note chord, and findVoicingOnStrings then returns null for every
\* string set and every ceiling.
C5_IncompatibleKindIsNull ==
  /\ ( /\ Returned("getTriadInversionNotes")
       /\ args.inversion \in TriadInversions
       /\ Len(args.chord.notes) = 4 ) => ret = None
  /\ ( /\ (Returned("getDrop2VoicingNotes") \/ Returned("getDrop3VoicingNotes"))
       /\ Len(args.chord.notes) = 3 ) => ret = None
  /\ ( /\ Returned("findVoicingOnStrings")
       /\ Incompatible(args.chord, args.voicingType) ) => ret = None

\* The first inversion of a dominant seventh chord asked for on three strings.
C5_Witness ==
  /\ Returned("findVoicingOnStrings")
  /\ args.voicingType = FIRST
  /\ args.chord.quality.name = "Dominant Seventh"
  /\ Len(args.stringSetVisualIndices) = 3
  /\ ret = None

\* The three outcomes without a voicing: the voicing type does not fit the
\* chord, the string set has the wrong length, the search is exhausted.
NotApplicable == Returned("findVoicingOnStrings") /\ trace.site = "voicing not applicable"
InvalidInput == Returned("findVoicingOnStrings") /\ trace.site = "string count mismatch"
NoSolution == Returned("findVoicingOnStrings") /\ trace.site = "no voicing found"

\* A call whose search is exhausted: with only the open strings to choose
\* from, the first inversion of A minor (C, E, A) has no place on the three
\* highest strings.  And a call with a string set of the wrong length.
NoSolutionCall ==
  findVoicingOnStrings(getChord("A", CHORD_QUALITY_LIST[2]).v, FIRST, <<0, 1, 2>>, Some(0))

InvalidInputCall ==
  findVoicingOnStrings(getChord("A", CHORD_QUALITY_LIST[2]).v, FIRST, <<0, 1>>, None)

\* C6 as claimed: the caller can tell the outcome "voicing type does not fit
\* the chord" from the outcomes "search exhausted" and "string set of the
\* wrong length": the value returned differs.
C6_Distinguishable ==
  NotApplicable => ret # NoSolutionCall.value /\ ret # InvalidInputCall.value

\* C6 as amended: the three outcomes return the same value, null.
C6_SameAbsentResult ==
  (NotApplicable \/ InvalidInput \/ NoSolution) => ret = None

\* A voicing type that does not fit the chord, answered with the very value
\* an exhausted search and a string set of the wrong length are answered with.
C6_Witness ==
  /\ NotApplicable
  /\ NoSolutionCall.trace.site = "no voicing found"
  /\ InvalidInputCall.trace.site = "string count mismatch"
  /\ ret = NoSolutionCall.value
  /\ ret = InvalidInputCall.value

\* seq rotated left by n positions.
RotateLeft(seq, n) == [i \in 1..Len(seq) |-> seq[((i - 1 + n) % Len(seq)) + 1]]

\* C7: on a chord of three notes getTriadInversionNotes(chord, n), n being
\* ROOT = 0, FIRST = 1 or SECOND = 2, is chord.notes rotated left by n
\* positions, and rotating it left by 3 - n more gives chord.notes back.
C7_InversionIsRotation ==
  ( /\ Returned("getTriadInversionNotes")
    /\ Len(args.chord.notes) = 3
    /\ args.inversion \in TriadInversions )
  => /\ ret = Some(RotateLeft(args.chord.notes, args.inversion.n))
     /\ ret.v[1] = args.chord.notes[args.inversion.n + 1]
     /\ RotateLeft(ret.v, 3 - args.inversion.n) = args.chord.notes

\* The second inversion of a triad, which starts on the fifth.
C7_Witness ==
  /\ Returned("getTriadInversionNotes")
  /\ args.inversion = SECOND
  /\ ret.some
  /\ ret.v[1] = args.chord.notes[3]
  /\ ret.v # args.chord.notes

\* C8: on a chord of four notes [root, third, fifth, seventh]
\* getDrop2VoicingNotes returns [fifth, root, third, seventh] and
\* getDrop3VoicingNotes returns [third, root, fifth, seventh]; on a chord of
\* any other note count both return null.
C8_DropOrders ==
  LET n == args.chord.notes IN
  /\ Returned("getDrop2VoicingNotes") =>
       ret = IF Len(n) = 4 THEN Some(<<n[3], n[1], n[2], n[4]>>) ELSE None
  /\ Returned("getDrop3VoicingNotes") =>
       ret = IF Len(n) = 4 THEN Some(<<n[2], n[1], n[3], n[4]>>) ELSE None

\* Drop 2 of a seventh chord: the fifth is the lowest note.
C8_Witness ==
  /\ Returned("getDrop2VoicingNotes")
  /\ Len(args.chord.notes) = 4
  /\ ret.some
  /\ ret.v[1] = args.chord.notes[3]

\* A call of getIntervalBetweenNotes(a, getNoteFromInterval(a, i)) that
\* returned; args.of.v is i.
RoundTripReturned == Returned("getIntervalBetweenNotes") /\ args.of.some

\* C9 as claimed: for each of the 12 root notes a and each interval i of the
\* catalog, P1 through P8, getIntervalBetweenNotes(a, getNoteFromInterval(a, i))
\* returns i.
C9_RoundTrip ==
  (RoundTripReturned /\ args.note1 \in Range(NOTES)) => ret = Some(args.of.v)

\* C9 as amended: the round trip returns i for every interval of the catalog
\* from P1 to M7; for P8 it returns P1, the note an octave above a being a.
C9_RoundTripWithinOctave ==
  RoundTripReturned =>
    ret = IF args.of.v.shortName = "P8" THEN INTERVALS("P1") ELSE Some(args.of.v)

\* The round trip of the octave on a canonical root, answered with the unison.
C9_Witness ==
  /\ RoundTripReturned
  /\ args.note1 \in Range(NOTES)
  /\ args.of.v.semitones = 12
  /\ ret.v.semitones = 0

\* The index of the note a spelling names, in upper or in lower case; -1 when
\* it names none.
NameIndex(s) ==
  IF s \in Range(NOTES) THEN IndexOf(NOTES, s) ELSE IndexOf(LowerCaseNames, s)

\* C10 as claimed: for a root r among the 12 canonical names and an interval i
\* of the catalog, getNoteFromInterval(r, i) is the note of index
\* (index(r) + i.semitones) mod 12; for a root that is not one of the 12 names
\* it returns null.
C10_NoteFromInterval ==
  Returned("getNoteFromInterval") =>
    IF args.rootNote \in Range(NOTES)
    THEN /\ ret.some
         /\ IndexOf(NOTES, ret.v) = (IndexOf(NOTES, args.rootNote) + args.interval.semitones) % 12
    ELSE ret = None

\* C10 as amended: the same note is returned for a root spelt in lower case
\* ("c#" counts as "C#"); null is returned for a root that is none of the 12
\* names in either case.
C10_NoteFromIntervalAnyCase ==
  Returned("getNoteFromInterval") =>
    IF NameIndex(args.rootNote) # -1
    THEN /\ ret.some
         /\ IndexOf(NOTES, ret.v) = (NameIndex(args.rootNote) + args.interval.semitones) % 12
    ELSE ret = None

\* A root in lower case, for which a note is returned past the end of NOTES:
\* a minor seventh above "a#" is G#.
C10_Witness ==
  /\ Returned("getNoteFromInterval")
  /\ args.rootNote = "a#"
  /\ args.interval.shortName = "m7"
  /\ ret = Some("G#")

\* The semitones of the catalog interval stored under a key.
SemitonesOf(key) == INTERVALS(key).v.semitones

\* The notes the formula of a quality gives above the note of index rootIndex.
NotesAbove(rootIndex, intervals) ==
  [i \in 1..Len(intervals) |-> NOTES[((rootIndex + SemitonesOf(intervals[i])) % 12) + 1]]

\* C11 as claimed: for a root among the 12 canonical names and a quality of
\* CHORD_QUALITIES, getChord returns a chord, never null, with as many notes as
\* the quality has intervals, notes[i] the note of index
\* (index(root) + semitones(intervals[i])) mod 12, and notes[0] the root; for a
\* root that is not one of the 12 names it returns null.
C11_ChordNotes ==
  (Returned("getChord") /\ args.quality \in Range(CHORD_QUALITY_LIST)) =>
    IF args.rootNote \in Range(NOTES)
    THEN /\ ret.some
         /\ Len(ret.v.notes) = Len(args.quality.intervals)
         /\ ret.v.notes = NotesAbove(IndexOf(NOTES, args.rootNote), args.quality.intervals)
         /\ ret.v.notes[1] = args.rootNote
    ELSE ret = None

\* C11 as amended: the root may be spelt in lower case, and the chord is then
\* the chord of the upper-case name (notes[0] and rootNote are the upper-case
\* name); null is returned for a root that is none of the 12 names in either
\* case.
C11_ChordNotesAnyCase ==
  (Returned("getChord") /\ args.quality \in Range(CHORD_QUALITY_LIST)) =>
    IF NameIndex(args.rootNote) # -1
    THEN /\ ret.some
         /\ Len(ret.v.notes) = Len(args.quality.intervals)
         /\ ret.v.notes = NotesAbove(NameIndex(args.rootNote), args.quality.intervals)
         /\ ret.v.notes[1] = NOTES[NameIndex(args.rootNote) + 1]
         /\ ret.v.rootNote = ret.v.notes[1]
         /\ ret.v.quality = args.quality
    ELSE ret = None

\* A root in lower case whose chord wraps past the end of NOTES: "a" with the
\* dominant seventh formula gives A, C#, E, G.
C11_Witness ==
  /\ Returned("getChord")
  /\ args.rootNote = "a"
  /\ args.quality.name = "Dominant Seventh"
  /\ ret.some
  /\ ret.v.notes = <<"A", "C#", "E", "G">>

\* The strings of a string set from the lowest-pitched to the highest-pitched
\* one, for a set of indices in 0..5.
LowToHigh(stringSet) ==
  [i \in 1..Len(stringSet) |-> CHOOSE s \in Range(stringSet) : IsIthLowest(stringSet, s, i)]

\* The target notes of a call of findVoicingOnStrings whose voicing type fits
\* the chord.
TargetOf(a) == targetOf(a.chord, a.voicingType).targetNotesInOrder.v

\* Every valid voicing, as the sequence of its frets from the lowest-pitched
\* string on: strings holds the strings in that order, and sofar the valid
\* fret sequences for the first i - 1 of them.  A fret is added when it lies
\* in 0..ceiling, sounds target[i] and sounds above the fret before it.
RECURSIVE ValidVoicingsFrom(_, _, _, _, _)
ValidVoicingsFrom(strings, target, ceiling, i, sofar) ==
  IF i > Len(strings) THEN sofar
  ELSE ValidVoicingsFrom(strings, target, ceiling, i + 1,
         {Append(g, f) : <<g, f>> \in
            {<<g, f>> \in sofar \X (0..ceiling) :
               /\ noteOnString(strings[i], f) = target[i]
               /\ i > 1 => openStringMidi(strings[i]).v + f
                             > openStringMidi(strings[i - 1]).v + g[i - 1]}})

ValidVoicings(strings, target, ceiling) ==
  ValidVoicingsFrom(strings, target, ceiling, 1, {<<>>})

\* The valid voicings of a call whose voicing type fits the chord and whose
\* string set has the required length and indices in 0..5.
ValidVoicingsOf(a) ==
  ValidVoicings(LowToHigh(a.stringSetVisualIndices), TargetOf(a), CeilingOf(a))

\* The frets of a voicing from its lowest-sounding position to its highest.
FretsByPitch(positions) ==
  [i \in 1..Len(positions) |->
     (CHOOSE p \in Range(positions) :
        Cardinality({q \in Range(positions) : PitchOf(q) < PitchOf(p)}) = i - 1).fret]

\* C12: a voicing returned by findVoicingOnStrings is the lowest-position one.
\* It is a valid voicing (target notes in order, strictly ascending pitch,
\* frets in 0..maxSearchFret); its fret on the lowest string is the smallest
\* fret that carries target[0] and can be completed to a valid voicing; each
\* later fret is the lowest fret of its string that sounds the target note
\* above the note before it; and on every string its fret is at most the fret
\* of any valid voicing.
C12_LowestPosition ==
  VoicingReturned =>
    LET strings == LowToHigh(args.stringSetVisualIndices)
        target == TargetOf(args)
        valid == ValidVoicingsOf(args)
        frets == FretsByPitch(ret.v)
    IN /\ frets \in valid
       /\ \A f \in 0..(frets[1] - 1) : \A g \in valid : g[1] # f
       /\ \A i \in 2..Len(frets) : \A f \in 0..(frets[i] - 1) :
            ~ /\ noteOnString(strings[i], f) = target[i]
              /\ openStringMidi(strings[i]).v + f
                   > openStringMidi(strings[i - 1]).v + frets[i - 1]
       /\ \A g \in valid : \A i \in 1..Len(frets) : frets[i] <= g[i]

\* A returned voicing that is not the only valid one, and in which the pitch
\* comparison passed over a lower fret that sounds the target note.
C12_Witness ==
  /\ VoicingReturned
  /\ Cardinality(ValidVoicingsOf(args)) > 1
  /\ \E i \in 2..Len(ret.v) : \E f \in 0..(FretsByPitch(ret.v)[i] - 1) :
       noteOnString(LowToHigh(args.stringSetVisualIndices)[i], f) = TargetOf(args)[i]

\* A string set whose indices are pairwise distinct.
DistinctIndices(stringSet) ==
  \A i, j \in 1..Len(stringSet) : i # j => stringSet[i] # stringSet[j]

\* C13: a voicing returned for a string set of distinct indices is ordered by
\* visual string index, strictly ascending, and has exactly one position on
\* each string of the set and none on any other string.
C13_OrderedOnePerString ==
  (VoicingReturned /\ DistinctIndices(args.stringSetVisualIndices)) =>
    /\ \A k \in 1..(Len(ret.v) - 1) : ret.v[k].string < ret.v[k + 1].string
    /\ \A s \in Range(args.stringSetVisualIndices) :
         Cardinality({k \in 1..Len(ret.v) : ret.v[k].string = s}) = 1
    /\ \A k \in 1..Len(ret.v) : ret.v[k].string \in Range(args.stringSetVisualIndices)

\* A voicing for a string set passed in neither ascending nor descending
\* order, returned with its positions on strings 1, 2, 3, 4 in that order.
C13_Witness ==
  /\ VoicingReturned
  /\ args.stringSetVisualIndices = <<3, 1, 4, 2>>
  /\ [k \in 1..Len(ret.v) |-> ret.v[k].string] = <<1, 2, 3, 4>>

\* The chord getChord builds for a canonical root and the quality of a name.
ChordOf(rootNote, qualityName) ==
  getChord(rootNote, CHOOSE q \in Range(CHORD_QUALITY_LIST) : q.name = qualityName).v

\* The call of the first scenario: A minor in root position on the strings
\* 3, 4, 5 with maxSearchFret 12.
AMinorCall ==
  /\ Returned("findVoicingOnStrings")
  /\ args.chord = ChordOf("A", "Minor Triad")
  /\ StrictEq(args.voicingType, ROOT)
  /\ args.stringSetVisualIndices = <<3, 4, 5>>
  /\ args.maxSearchFret = Some(12)

\* C14: for A minor (A, C, E), TriadInversion.ROOT, string set [3,4,5] and
\* maxSearchFret 12, findVoicingOnStrings returns low-E string (5) fret 5,
\* A string (4) fret 3 and D string (3) fret 2, and nothing else.
C14_AMinorRootPosition ==
  AMinorCall =>
    /\ args.chord.notes = <<"A", "C", "E">>
    /\ ret.some
    /\ Range(ret.v) = {[string |-> 5, fret |-> 5], [string |-> 4, fret |-> 3],
                        [string |-> 3, fret |-> 2]}
    /\ Len(ret.v) = 3

\* The call of the scenario has returned, with the D string first in the
\* result.
C14_Witness ==
  /\ AMinorCall
  /\ ret.some
  /\ ret.v[1] = [string |-> 3, fret |-> 2]

\* The note a position sounds, from its MIDI pitch (MIDI 0 is a C).
PitchClassOf(p) == NOTES[(PitchOf(p) % 12) + 1]

\* The call of the second scenario: G dominant seventh as a Drop 2 voicing
\* on the strings 1, 2, 3, 4 with maxSearchFret left out.
GSeventhCall ==
  /\ Returned("findVoicingOnStrings")
  /\ args.chord = ChordOf("G", "Dominant Seventh")
  /\ StrictEq(args.voicingType, DROP_2)
  /\ args.stringSetVisualIndices = <<1, 2, 3, 4>>
  /\ args.maxSearchFret = None

\* C15: for G dominant seventh (G, B, D, F), DROP_2, string set [1,2,3,4] and
\* the default maxSearchFret, findVoicingOnStrings returns a result, not null,
\* of exactly 4 positions, and its position on the lowest-pitched string (4)
\* sounds a D.
C15_GSeventhDrop2 ==
  GSeventhCall =>
    /\ args.chord.notes = <<"G", "B", "D", "F">>
    /\ CeilingOf(args) = 12
    /\ ret.some
    /\ Len(ret.v) = 4
    /\ \E k \in 1..Len(ret.v) : ret.v[k].string = 4
    /\ \A k \in 1..Len(ret.v) : ret.v[k].string = 4 => PitchClassOf(ret.v[k]) = "D"

\* The call of the scenario has returned with the D at fret 5 of the A
\* string.
C15_Witness ==
  /\ GSeventhCall
  /\ ret.some
  /\ [string |-> 4, fret |-> 5] \in Range(ret.v)

\* C17: findVoicingOnStrings leaves its inputs unchanged on every path,
\* result or null: when it has returned, the caller's string-set array holds
\* the indices in the order they were passed, and chord.notes holds the notes
\* it held, in the same order.
C17_InputsUnchanged ==
  Returned("findVoicingOnStrings") =>
    /\ inputs.stringSetVisualIndices = args.stringSetVisualIndices
    /\ inputs.notes = args.chord.notes

\* A 'Root Position' call that returned a voicing for a string set passed in
\* an order the sort changes.
C17_Witness ==
  /\ VoicingReturned
  /\ StrictEq(args.voicingType, RootPosition)
  /\ args.stringSetVisualIndices = <<4, 2, 3>>
  /\ inputs.stringSetVisualIndices = <<4, 2, 3>>
  /\ inputs.notes = args.chord.notes

HasInvalidString(stringSet) == \E i \in 1..Len(stringSet) : stringSet[i] \notin 0..5

\* C18: invalid input is answered with null.  A call of findVoicingOnStrings
\* with a string set that holds an index outside 0..5, or with a voicing type
\* that is none of the supported ones, returns null; no call returns a
\* position on a string outside 0..5; and no pitch comparison of any call
\* reads the error value -1 of getAbsolutePitch.
C18_InvalidInputIsNull ==
  Returned("findVoicingOnStrings") =>
    /\ HasInvalidString(args.stringSetVisualIndices) => ret = None
    /\ (\A v \in SupportedVoicingTypes : ~StrictEq(args.voicingType, v)) => ret = None
    /\ ret.some => \A k \in 1..Len(ret.v) : ret.v[k].string \in 0..5
    /\ ~trace.errorPitch

\* A search that reached the invalid string of its set: it placed the notes
\* of the two valid strings, found nothing on string -1, gave up every start
\* fret it had matched and returned null.
C18_Witness ==
  /\ Returned("findVoicingOnStrings")
  /\ args.stringSetVisualIndices = <<-1, 0, 1>>
  /\ trace.site = "no voicing found"
  /\ trace.abandoned > 0
  /\ trace.probes > CeilingOf(args)
  /\ ret = None

\* C19: for a root among the 12 names and a formula of SCALE_FORMULAS,
\* getScaleNotes returns, for each interval of the formula in order, the note
\* of index (index(root) + semitones) mod 12; and calculateScalePositions
\* highlights exactly the positions (string, fret), string in 0..5 and fret in
\* 0..12, whose pitch class is one of these notes, each of them once.
C19_ScaleNotesAndPositions ==
  /\ (Returned("getScaleNotes") /\ args.rootNote \in Range(NOTES)) =>
       /\ ret.some
       /\ ret.v = NotesAbove(IndexOf(NOTES, args.rootNote), args.formula.intervals)
  /\ Returned("calculateScalePositions") =>
       LET formula == SCALE_FORMULA_LIST[IndexOf(ScaleKeys, args.settings.scaleKey) + 1]
           scale == Range(NotesAbove(IndexOf(NOTES, args.settings.rootNote),
                                     formula.intervals))
           InScale(s, f) == NOTES[((openStringMidi(s).v + f) % 12) + 1] \in scale
           At2(s, f) == {k \in 1..Len(ret.v) : ret.v[k].string = s /\ ret.v[k].fret = f}
       IN /\ \A s \in 0..5, f \in 0..12 :
               Cardinality(At2(s, f)) = IF InScale(s, f) THEN 1 ELSE 0
          /\ \A k \in 1..Len(ret.v) : ret.v[k].string \in 0..5 /\ ret.v[k].fret \in 0..12

\* A natural minor highlighted: 7 of its notes lie on each string within
\* the first 12 frets, an eighth at fret 12 on the strings whose open note is
\* of the scale, and the root at fret 5 of the low E string is marked.
C19_Witness ==
  /\ Returned("calculateScalePositions")
  /\ args.settings = [rootNote |-> "A", scaleKey |-> "naturalMinor"]
  /\ Len(ret.v) = 48
  /\ [string |-> 5, fret |-> 5, label |-> "A", color |-> "bg-red-500"] \in Range(ret.v)
  /\ [string |-> 0, fret |-> 12, label |-> "E", color |-> "bg-blue-400"] \in Range(ret.v)

\* A call the search is run for in earnest: the voicing type gives a note
\* order for the chord, and the string set has as many indices as the order
\* has notes, pairwise distinct and all in 0..5.
Searchable(a) ==
  /\ targetOf(a.chord, a.voicingType).supported
  /\ targetOf(a.chord, a.voicingType).targetNotesInOrder.some
  /\ Len(a.stringSetVisualIndices) = Len(TargetOf(a))
  /\ DistinctIndices(a.stringSetVisualIndices)
  /\ ~HasInvalidString(a.stringSetVisualIndices)

\* C20: the search is complete.  For a chord and voicing type whose note
\* order exists and a string set of distinct indices in 0..5 of the required
\* length, findVoicingOnStrings returns null only if there is no valid
\* voicing at all: no assignment of frets in 0..maxSearchFret to the strings
\* that sounds the target note on every string with strictly ascending pitch
\* from the lowest string to the highest.
C20_SearchComplete ==
  (Returned("findVoicingOnStrings") /\ Searchable(args) /\ ret = None) =>
    ValidVoicingsOf(args) = {}

\* A search that had to give up start frets and ended with null: every
\* start fret was looked at, some carried the lowest note, none could be
\* completed.
C20_Witness ==
  /\ Returned("findVoicingOnStrings")
  /\ Searchable(args)
  /\ ret = None
  /\ trace.abandoned > 0
  /\ trace.starts = CeilingOf(args) + 1
  /\ CeilingOf(args) >= DefaultMaxSearchFret

\* C21: in every voicing findVoicingOnStrings returns, the fret on the lowest
\* string is the lowest fret of that string that carries target[0], so it lies
\* in 0..11; no start fret that carried target[0] was given up before the
\* result was found (a start fret that cannot be completed is never followed
\* by one that can).
C21_FirstMatchingStartFret ==
  VoicingReturned =>
    /\ trace.abandoned = 0
    /\ LET lowestString == LowToHigh(args.stringSetVisualIndices)[1]
           startFret == FretsByPitch(ret.v)[1]
       IN /\ noteOnString(lowestString, startFret) = TargetOf(args)[1]
          /\ \A f \in 0..(startFret - 1) : noteOnString(lowestString, f) # TargetOf(args)[1]
          /\ startFret \in 0..11

\* A voicing returned under a ceiling that leaves a second start fret, an
\* octave above the one taken, for the lowest note.
C21_Witness ==
  /\ VoicingReturned
  /\ FretsByPitch(ret.v)[1] + 12 <= CeilingOf(args)
  /\ trace.starts = FretsByPitch(ret.v)[1] + 1

\* The highest ceiling a call is repeated with.
RaisedCeiling == 16

\* What findVoicingOnStrings returns for the arguments a with the ceiling m
\* in place of theirs.
ResultWithCeiling(a, m) ==
  findVoicingOnStrings(a.chord, a.voicingType, a.stringSetVisualIndices, Some(m)).value

\* C22: findVoicingOnStrings is monotone in the fret ceiling.  When a call
\* with ceiling m returned a voicing, the call with the same chord, voicing
\* type and string set returns the same voicing for every ceiling above m:
\* raising maxSearchFret never changes or removes a result.
C22_MonotoneInCeiling ==
  VoicingReturned =>
    \A m \in (CeilingOf(args) + 1)..RaisedCeiling : ResultWithCeiling(args, m) = ret

\* A call that returned a voicing under the low ceiling and returns null
\* under the ceiling 0: raising the ceiling brought the result, and raising
\* it further keeps it.
C22_Witness ==
  /\ VoicingReturned
  /\ args.maxSearchFret = Some(LowCeiling)
  /\ ResultWithCeiling(args, 0) = None
  /\ ResultWithCeiling(args, RaisedCeiling) = ret

\* Every order in which the indices of a string set can be passed.
OrdersOf(stringSet) ==
  {[i \in 1..Len(stringSet) |-> stringSet[p[i]]] : p \in Permutations(1..Len(stringSet))}

\* What findVoicingOnStrings returns for the arguments a with the string set
\* passed as stringSet.
ResultWithStringSet(a, stringSet) ==
  findVoicingOnStrings(a.chord, a.voicingType, stringSet, a.maxSearchFret).value

\* C23: the result of findVoicingOnStrings does not depend on the order in
\* which the string indices are passed: for every permutation of the string
\* set of a call, the call with the permuted set returns what the call
\* returned, voicing or null.
C23_OrderOfStringsIrrelevant ==
  Returned("findVoicingOnStrings") =>
    \A stringSet \in OrdersOf(args.stringSetVisualIndices) :
      ResultWithStringSet(args, stringSet) = ret

\* A voicing returned for a string set passed out of order; the set has 24
\* orders, the sorted ones among them.
C23_Witness ==
  /\ VoicingReturned
  /\ args.stringSetVisualIndices = <<3, 1, 4, 2>>
  /\ Cardinality(OrdersOf(args.stringSetVisualIndices)) = 24
  /\ ResultWithStringSet(args, <<1, 2, 3, 4>>) = ret
  /\ ResultWithStringSet(args, <<4, 3, 2, 1>>) = ret

\* The highest and the lowest fret of a sequence of frets, and its span.
HighestFret(frets) == CHOOSE f \in Range(frets) : \A g \in Range(frets) : g <= f
LowestFret(frets) == CHOOSE f \in Range(frets) : \A g \in Range(frets) : f <= g
Span(frets) == HighestFret(frets) - LowestFret(frets)

RECURSIVE SumOf(_)
SumOf(frets) == IF frets = <<>> THEN 0 ELSE Head(frets) + SumOf(Tail(frets))

\* C24 as claimed: the voicing findVoicingOnStrings returns is the most
\* compact one: no valid voicing for the same chord, voicing type, string set
\* and maxSearchFret has a smaller fret span (highest fret minus lowest fret).
C24_SmallestSpan ==
  VoicingReturned =>
    \A g \in ValidVoicingsOf(args) : Span(FretsByPitch(ret.v)) <= Span(g)

\* C24 as amended: the voicing returned is the lowest one, not the one of the
\* smallest span: no valid voicing has a lower highest fret or a lower lowest
\* fret, and none reaches a lower sum of frets.
C24_LowestNotNarrowest ==
  VoicingReturned =>
    \A g \in ValidVoicingsOf(args) :
      /\ HighestFret(FretsByPitch(ret.v)) <= HighestFret(g)
      /\ LowestFret(FretsByPitch(ret.v)) <= LowestFret(g)
      /\ SumOf(FretsByPitch(ret.v)) <= SumOf(g)

\* E minor in root position on the strings 3, 4, 5 under the default
\* ceiling: the frets returned are 0, 10, 9 from the low E string up, a span
\* of 10, while 12, 10, 9 is a valid voicing with a span of 3.
C24_Witness ==
  /\ VoicingReturned
  /\ args.chord = ChordOf("E", "Minor Triad")
  /\ StrictEq(args.voicingType, ROOT)
  /\ args.stringSetVisualIndices = <<3, 4, 5>>
  /\ args.maxSearchFret = None
  /\ FretsByPitch(ret.v) = <<0, 10, 9>>
  /\ <<12, 10, 9>> \in ValidVoicingsOf(args)

\* C25 as claimed: for notes a, b among the 12 canonical names,
\* getIntervalBetweenNotes(a, b) returns a catalog interval whose semitones
\* are (index(b) - index(a) + 12) mod 12, so "not found" never occurs for
\* valid notes; it returns null when either note is not one of the 12 names.
C25_IntervalBetween ==
  Returned("getIntervalBetweenNotes") =>
    IF args.note1 \in Range(NOTES) /\ args.note2 \in Range(NOTES)
    THEN /\ ret.some
         /\ ret.v \in Range(INTERVAL_LIST)
         /\ ret.v.semitones
              = (IndexOf(NOTES, args.note2) - IndexOf(NOTES, args.note1) + 12) % 12
    ELSE ret = None

\* C25 as amended: the same interval is returned when either note is spelt in
\* lower case; null is returned when a note is none of the 12 names in either
\* case.
C25_IntervalBetweenAnyCase ==
  Returned("getIntervalBetweenNotes") =>
    IF NameIndex(args.note1) # -1 /\ NameIndex(args.note2) # -1
    THEN /\ ret.some
         /\ ret.v \in Range(INTERVAL_LIST)
         /\ ret.v.semitones = (NameIndex(args.note2) - NameIndex(args.note1) + 12) % 12
    ELSE ret = None

\* A pair whose second note lies below the first in NOTES, one of them in
\* lower case: from "b" up to "C" is a minor second.
C25_Witness ==
  /\ Returned("getIntervalBetweenNotes")
  /\ args.note1 = "b"
  /\ args.note2 = "C"
  /\ ret.some
  /\ ret.v.shortName = "m2"

\* The exits of findVoicingOnStrings: its six return statements.
ExitSites ==
  {"unsupported voicing type", "voicing not applicable", "note count mismatch",
   "string count mismatch", "voicing", "no voicing found"}

\* C26: findVoicingOnStrings terminates for every chord, voicing type, string
\* set and maxSearchFret: a call that was made comes to one of the return
\* statements, and a call that has returned came to one of them having looked
\* at no more than maxSearchFret + 1 start frets and, for any one of them, at
\* no more than (noteCount - 1) * (maxSearchFret + 1) frets of the other
\* strings.
C26_TerminatesWithinBounds ==
  /\ (op = "findVoicingOnStrings" /\ pc = "called") =>
       findVoicingOnStrings(args.chord, args.voicingType, args.stringSetVisualIndices,
                            args.maxSearchFret).trace.site \in ExitSites
  /\ Returned("findVoicingOnStrings") =>
       /\ trace.site \in ExitSites
       /\ trace.starts <= CeilingOf(args) + 1
       /\ trace.probes <= (RequiredCount(args.chord, args.voicingType) - 1)
                             * (CeilingOf(args) + 1)

\* A search that used up its start frets and, for one of them, every fret
\* of two further strings but the last: a four-note voicing not found.
C26_Witness ==
  /\ Returned("findVoicingOnStrings")
  /\ ret = None
  /\ Len(args.stringSetVisualIndices) = 4
  /\ trace.starts = CeilingOf(args) + 1
  /\ trace.probes > CeilingOf(args) + 1

(***************************************************************************)
(* The React components.  One step is one event handler (with the effects  *)
(* React runs after the render it causes), or one timer callback.  A       *)
(* handler reads the state of the render that created it; React renders    *)
(* after every click, so that is the current state.                        *)
(***************************************************************************)
\* The utilities are not called on their own while a component is mounted.
Mounted(state) ==
  /\ op = ""
  /\ args = <<>>
  /\ pc = ""
  /\ ret = None
  /\ trace = NoTrace
  /\ inputs = InputsOf(<<>>)
  /\ history = <<>>
  /\ ui = state

\* The component renders with a new state.
Render(state) ==
  /\ ui' = state
  /\ UNCHANGED <<op, args, pc, ret, trace, inputs, history>>

\* The effect each trainer runs after a render with quizState 'idle': it
\* calls generateQuestion before the next event is handled.  questions are
\* the states generateQuestion can leave.
afterRender(s, questions) == IF s.quizState = "idle" THEN questions ELSE {s}

\* The largest number of answers followed in one quiz (the counters of the
\* components have no bound of their own).
MaxQuestions == 2

\* !value for a string that may be null or undefined.
NoString(value) == value = "" \/ value = Undefined

\* The note of a position on the fretboard: the string index is visual
\* (0 is the high E string).
noteAt(position) ==
  getNoteAtFret(At(STANDARD_TUNING, (Len(STANDARD_TUNING) - 1) - position.string),
                position.fret)

(***************************************************************************)
(* FretboardTrainer.tsx                                                    *)
(***************************************************************************)
\* The values the user types or picks in the settings panel, the random
\* draws followed and the places clicked.
ToggledStrings == {0}
FretInputs == {3, 13}
DrawnStrings == {0, 4}
DrawnFrets == {3, 4}
ClickedStrings == {0, 4}
ClickedFrets == {0, 3}
AnswerSample == {"E", "C#"}
\* The most timers of 'X' markers that are pending at once.
MaxTimers == 1
\* The most 'X' markers followed on the fretboard at once.
MaxMarkers == 2

\* An element of highlightedNotes; a property the object literal does not
\* name reads undefined.
Highlight(position, color, label) ==
  [string |-> position.string, fret |-> position.fret,
   color |-> color, colour |-> Undefined, label |-> label]

\* prev.filter(n => !(n.string === ... && n.fret === ... && n.color === 'bg-gray-400'))
RECURSIVE withoutGrayAt(_, _)
withoutGrayAt(notes, position) ==
  IF notes = <<>> THEN <<>>
  ELSE LET n == Head(notes) IN
       IF n.string = position.string /\ n.fret = position.fret /\ n.color = "bg-gray-400"
       THEN withoutGrayAt(Tail(notes), position)
       ELSE <<n>> \o withoutGrayAt(Tail(notes), position)

FretboardTrainer_maxFrets == 12

FretboardTrainer_initial ==
  LET settings == [strings |-> [i \in 1..Len(STANDARD_TUNING) |-> TRUE],
                   fretRange |-> [min |-> 0, max |-> 12],
                   noteType |-> "all"]
  IN [component |-> "FretboardTrainer",
      mode |-> "identify",
      quizState |-> "settings",
      currentQuestion |-> None,
      feedback |-> "",
      score |-> 0,
      questionsAsked |-> 0,
      highlightedNotes |-> <<>>,
      settings |-> settings,
      tempSettings |-> settings,
      settingsError |-> "",
      timers |-> <<>>]

\* The results of getRandomNotePosition.  A draw is a selected string and a
\* fret of the range (those of DrawnStrings and DrawnFrets are followed); it
\* is kept unless its note is a sharp and only naturals are practised.  The
\* result is a kept draw, or null when no string is selected or when 100
\* draws in a row are not kept.
getRandomNotePosition(settings) ==
  LET availableVisualStrings ==
        {i \in 0..(Len(settings.strings) - 1) : settings.strings[i + 1]}
      draws ==
        {[string |-> st, fret |-> f] :
           st \in availableVisualStrings \cap DrawnStrings,
           f \in (settings.fretRange.min..settings.fretRange.max) \cap DrawnFrets}
      kept(position) ==
        /\ ~NoString(noteAt(position))
        /\ ~(/\ settings.noteType = "natural"
             /\ noteAt(position) \in {"C#", "D#", "F#", "G#", "A#"})
  IN {Some(p) : p \in {d \in draws : kept(d)}}
       \cup (IF \E d \in draws : ~kept(d) THEN {None} ELSE {})
       \cup (IF availableVisualStrings = {} THEN {None} ELSE {})

\* generateQuestion, given what getRandomNotePosition returned.
FretboardTrainer_generateQuestion(s, position) ==
  IF ~position.some
  THEN [s EXCEPT !.settingsError =
                    IF \A i \in 1..Len(s.settings.strings) : ~s.settings.strings[i]
                    THEN "Please select at least one string."
                    ELSE "Could not generate a question with the current settings. Try broadening the range or note types.",
                 !.quizState = "settings"]
  ELSE LET noteName == noteAt(position.v) IN
       IF NoString(noteName)
       THEN [s EXCEPT !.settingsError = "",
                      !.feedback = "Error calculating note name. Please check configuration.",
                      !.quizState = "settings"]
       ELSE IF s.mode = "identify"
       THEN [s EXCEPT !.settingsError = "",
                      !.highlightedNotes = <<Highlight(position.v, "bg-yellow-400", Undefined)>>,
                      !.currentQuestion =
                         Some([mode |-> "identify", position |-> position,
                               correctNote |-> noteName, targetNote |-> Undefined]),
                      !.feedback = "",
                      !.quizState = "question"]
       ELSE [s EXCEPT !.settingsError = "",
                      !.highlightedNotes = <<>>,
                      !.currentQuestion =
                         Some([mode |-> "find", position |-> None,
                               correctNote |-> Undefined, targetNote |-> noteName]),
                      !.feedback = "",
                      !.quizState = "question"]

\* The guard of handleIdentifyAnswer.
FretboardTrainer_identifying(s) ==
  /\ s.currentQuestion.some
  /\ s.currentQuestion.v.mode = "identify"
  /\ s.currentQuestion.v.position.some
  /\ ~NoString(s.currentQuestion.v.correctNote)

\* handleIdentifyAnswer that counts a question only when the answer is
\* wrong: a correct answer raises score and leaves questionsAsked.
FretboardTrainer_handleIdentifyAnswerUncounted(s, selectedNote) ==
  LET q == s.currentQuestion.v
      isCorrect == selectedNote = q.correctNote
  IN [s EXCEPT !.questionsAsked = IF isCorrect THEN @ ELSE @ + 1,
               !.feedback = IF isCorrect THEN "Correct!" ELSE "Incorrect. The note was",
               !.score = IF isCorrect THEN @ + 1 ELSE @,
               !.highlightedNotes =
                  <<Highlight(q.position.v,
                              IF isCorrect THEN "bg-green-500" ELSE "bg-red-500",
                              q.correctNote)>>,
               !.quizState = "answered"]

\* The feedback texts, without the note names they quote.
FretboardTrainer_handleIdentifyAnswer(s, selectedNote) ==
  LET q == s.currentQuestion.v
      isCorrect == selectedNote = q.correctNote
  IN [s EXCEPT !.questionsAsked = @ + 1,
               !.feedback = IF isCorrect THEN "Correct!" ELSE "Incorrect. The note was",
               !.score = IF isCorrect THEN @ + 1 ELSE @,
               !.highlightedNotes =
                  <<Highlight(q.position.v,
                              IF isCorrect THEN "bg-green-500" ELSE "bg-red-500",
                              q.correctNote)>>,
               !.quizState = "answered"]

\* The guard of handleFretClick.
FretboardTrainer_finding(s) ==
  /\ s.quizState = "question"
  /\ s.currentQuestion.some
  /\ s.currentQuestion.v.mode = "find"
  /\ ~NoString(s.currentQuestion.v.targetNote)

\* The test of handleFretClick for a click outside the practice area.
outsidePracticeArea(settings, clickedPosition) ==
  \/ ~settings.strings[clickedPosition.string + 1]
  \/ clickedPosition.fret < settings.fretRange.min
  \/ clickedPosition.fret > settings.fretRange.max

\* handleFretClick.  A click outside the practice area appends the marker
\* { ...clickedPosition, colour: 'bg-gray-400', label: 'X' } and starts a
\* timer of 1000 ms; a click inside it is an answer.
FretboardTrainer_handleFretClick(s, clickedPosition) ==
  LET q == s.currentQuestion.v
      clickedNoteName == noteAt(clickedPosition)
      isCorrect == clickedNoteName = q.targetNote
  IN IF outsidePracticeArea(s.settings, clickedPosition)
     THEN [s EXCEPT !.feedback = "Clicked outside the current practice area.",
                    !.highlightedNotes =
                       Append(@, [string |-> clickedPosition.string,
                                  fret |-> clickedPosition.fret,
                                  color |-> Undefined,
                                  colour |-> "bg-gray-400",
                                  label |-> "X"]),
                    !.timers = Append(@, clickedPosition)]
     ELSE IF NoString(clickedNoteName) THEN s
     ELSE [s EXCEPT !.questionsAsked = @ + 1,
                    !.feedback = IF isCorrect THEN "Correct!" ELSE "Incorrect. That was",
                    !.score = IF isCorrect THEN @ + 1 ELSE @,
                    !.highlightedNotes =
                       <<Highlight(clickedPosition,
                                   IF isCorrect THEN "bg-green-500" ELSE "bg-red-500",
                                   clickedNoteName)>>,
                    !.quizState = "answered"]

FretboardTrainer_applySettings(s) ==
  IF \A i \in 1..Len(s.tempSettings.strings) : ~s.tempSettings.strings[i]
  THEN [s EXCEPT !.settingsError = "Please select at least one string."]
  ELSE IF s.tempSettings.fretRange.min > s.tempSettings.fretRange.max
  THEN [s EXCEPT !.settingsError = "Minimum fret cannot be greater than maximum fret."]
  ELSE [s EXCEPT !.settings = s.tempSettings,
                 !.score = 0,
                 !.questionsAsked = 0,
                 !.feedback = "",
                 !.currentQuestion = None,
                 !.highlightedNotes = <<>>,
                 !.settingsError = "",
                 !.quizState = "idle"]

\* The mode radio buttons, enabled in the settings state only.
FretboardTrainer_SetMode ==
  /\ ui.component = "FretboardTrainer"
  /\ ui.quizState = "settings"
  /\ \E mode \in {"identify", "find"} :
       /\ mode # ui.mode
       /\ Render([ui EXCEPT !.mode = mode])

FretboardTrainer_HandleStringToggle ==
  /\ ui.component = "FretboardTrainer"
  /\ \E index \in ToggledStrings :
       Render([ui EXCEPT !.tempSettings.strings[index + 1] = ~@, !.settingsError = ""])

\* handleFretRangeChange: a number that fails the check is ignored, and the
\* other end of the range follows a number that crosses it.
FretboardTrainer_HandleFretRangeChange ==
  /\ ui.component = "FretboardTrainer"
  /\ \E name \in {"min", "max"}, numValue \in FretInputs :
       LET newRange == [ui.tempSettings.fretRange EXCEPT ![name] = numValue]
           adjusted == IF name = "min" /\ numValue > newRange.max
                       THEN [newRange EXCEPT !.max = numValue]
                       ELSE IF name = "max" /\ numValue < newRange.min
                       THEN [newRange EXCEPT !.min = numValue]
                       ELSE newRange
       IN /\ ~(numValue < 0 \/ numValue > FretboardTrainer_maxFrets)
          /\ Render([ui EXCEPT !.tempSettings.fretRange = adjusted,
                               !.settingsError = ""])

FretboardTrainer_HandleNoteTypeChange ==
  /\ ui.component = "FretboardTrainer"
  /\ \E value \in {"all", "natural"} :
       /\ value # ui.tempSettings.noteType
       /\ Render([ui EXCEPT !.tempSettings.noteType = value, !.settingsError = ""])

\* The Apply button, and the effect of the render that follows.
FretboardTrainer_ApplySettings ==
  /\ ui.component = "FretboardTrainer"
  /\ \E s \in afterRender(FretboardTrainer_applySettings(ui),
                          {FretboardTrainer_generateQuestion(
                             FretboardTrainer_applySettings(ui), position) :
                               position \in getRandomNotePosition(
                                              FretboardTrainer_applySettings(ui).settings)}) :
       Render(s)

\* The Next Question button, shown in the answered state.
FretboardTrainer_NextQuestion ==
  /\ ui.component = "FretboardTrainer"
  /\ ui.quizState = "answered"
  /\ \E position \in getRandomNotePosition(ui.settings) :
       Render(FretboardTrainer_generateQuestion(ui, position))

\* The note buttons, shown for an identify question that is not answered.
FretboardTrainer_HandleIdentifyAnswer ==
  /\ ui.component = "FretboardTrainer"
  /\ ui.quizState = "question"
  /\ FretboardTrainer_identifying(ui)
  /\ ui.questionsAsked < MaxQuestions
  /\ \E selectedNote \in AnswerSample \cup {ui.currentQuestion.v.correctNote} :
       Render(FretboardTrainer_handleIdentifyAnswer(ui, selectedNote))

\* A click on the fretboard, which has the handler for a find question that
\* is not answered.
FretboardTrainer_HandleFretClick ==
  /\ ui.component = "FretboardTrainer"
  /\ FretboardTrainer_finding(ui)
  /\ ui.questionsAsked < MaxQuestions
  /\ Len(ui.timers) < MaxTimers
  /\ Len(ui.highlightedNotes) < MaxMarkers
  /\ \E st \in ClickedStrings, f \in ClickedFrets :
       Render(FretboardTrainer_handleFretClick(ui, [string |-> st, fret |-> f]))

\* The oldest timer fires (all timers have the same delay): its callback
\* filters highlightedNotes for the position of its click.
FretboardTrainer_Timeout ==
  /\ ui.component = "FretboardTrainer"
  /\ ui.timers # <<>>
  /\ Render([ui EXCEPT !.timers = Tail(@),
                       !.highlightedNotes = withoutGrayAt(@, Head(ui.timers))])

FretboardTrainer_Next ==
  \/ FretboardTrainer_SetMode
  \/ FretboardTrainer_HandleStringToggle
  \/ FretboardTrainer_HandleFretRangeChange
  \/ FretboardTrainer_HandleNoteTypeChange
  \/ FretboardTrainer_ApplySettings
  \/ FretboardTrainer_NextQuestion
  \/ FretboardTrainer_HandleIdentifyAnswer
  \/ FretboardTrainer_HandleFretClick
  \/ FretboardTrainer_Timeout

SpecFretboardTrainer == Mounted(FretboardTrainer_initial) /\ [][FretboardTrainer_Next]_vars

(***************************************************************************)
(* TheoryRevision (ScaleTrainer.tsx)                                       *)
(***************************************************************************)
\* Object.keys(CHORD_QUALITIES), in the order of CHORD_QUALITY_LIST.
ChordQualityKeys ==
  <<"major", "minor", "diminished", "augmented", "major7", "minor7", "dominant7",
    "minor7flat5", "diminished7", "sus4", "sus2">>

\* CHORD_QUALITIES[key]: undefined (None) for a key that is not in the catalog.
CHORD_QUALITIES(key) ==
  IF IndexOf(ChordQualityKeys, key) = -1 THEN None
  ELSE Some(CHORD_QUALITY_LIST[IndexOf(ChordQualityKeys, key) + 1])

\* quality.abbr of CHORD_QUALITIES[key]; the signs outside ASCII are spelt
\* by their names.
abbrOf(key) ==
  CASE key = "major" -> <<"", "maj", "M">>
    [] key = "minor" -> <<"m", "min", "-">>
    [] key = "diminished" -> <<"dim", "degree">>
    [] key = "augmented" -> <<"aug", "+">>
    [] key = "major7" -> <<"maj7", "M7", "delta">>
    [] key = "minor7" -> <<"m7", "min7", "-7">>
    [] key = "dominant7" -> <<"7", "dom7">>
    [] key = "minor7flat5" -> <<"m7b5", "oslash", "oslash7">>
    [] key = "diminished7" -> <<"dim7", "degree7">>
    [] key = "sus4" -> <<"sus4", "sus">>
    [] key = "sus2" -> <<"sus2">>
    [] OTHER -> <<>>

\* The qualities drawn for a question and the wrong names drawn as
\* distractors.
DrawnQualities == {"major", "minor7"}
DrawnFill == {"Suspended Fourth", "Suspended Second", "Augmented Triad"}

\* The array a checkbox leaves: Array.from of the Set of the keys with the
\* key deleted, or added as the last one.
toggled(arr, key) ==
  IF IndexOf(arr, key) # -1
  THEN SelectSeq(arr, LAMBDA k : k # key)
  ELSE Append(arr, key)

TheoryRevision_defaultQualities ==
  <<"major", "minor", "diminished", "augmented",
    "major7", "minor7", "dominant7", "minor7flat5", "diminished7">>

TheoryRevision_initial ==
  [component |-> "TheoryRevision",
   quizState |-> "settings",
   currentQuestion |-> None,
   feedback |-> "",
   score |-> 0,
   questionsAsked |-> 0,
   settings |-> [enabledQualities |-> TheoryRevision_defaultQualities],
   tempSettings |-> [enabledQualities |-> TheoryRevision_defaultQualities],
   settingsError |-> ""]

\* The answer options generateQuestion can draw.  The shuffled filter of
\* CHORD_QUALITY_LIST puts up to three names of enabled qualities other than
\* the correct one first (a shuffle that keeps the order of the list and one
\* that reverses it are followed); the correct name and these distractors
\* are filled up to four names with names drawn from the whole list.  The
\* order of the array, which only the rendering uses, is left out.
answerOptionsOf(settings, correctAnswer) ==
  LET candidates ==
        SelectSeq(CHORD_QUALITY_LIST,
                  LAMBDA q : /\ q.name # correctAnswer
                             /\ \E i \in 1..Len(ChordQualityKeys) :
                                  /\ CHORD_QUALITY_LIST[i] = q
                                  /\ IndexOf(settings.enabledQualities, ChordQualityKeys[i]) # -1)
      n == Len(candidates)
      k == IF n < 3 THEN n ELSE 3
      distractors ==
        {{candidates[i].name : i \in 1..k}, {candidates[i].name : i \in (n - k + 1)..n}}
      others == {CHORD_QUALITY_LIST[i].name : i \in 1..Len(CHORD_QUALITY_LIST)}
                  \ {correctAnswer}
  IN UNION {{{correctAnswer} \cup d \cup fill :
               fill \in {f \in SUBSET ((others \ d) \cap DrawnFill) :
                           Cardinality(f) = 3 - Cardinality(d)}} :
            d \in distractors}

\* generateQuestion, given the key, the symbol and the options it drew.
TheoryRevision_generateQuestion(s, randomQualityKey, symbolToShow, answerOptions) ==
  IF Len(s.settings.enabledQualities) = 0
  THEN [s EXCEPT !.settingsError = "Please select at least one chord quality to practice.",
                 !.quizState = "settings"]
  ELSE IF ~CHORD_QUALITIES(randomQualityKey).some
  THEN [s EXCEPT !.settingsError = "Failed to select a random chord quality.",
                 !.quizState = "settings"]
  ELSE [s EXCEPT !.settingsError = "",
                 !.currentQuestion =
                    Some([qualityKey |-> randomQualityKey,
                          symbolToShow |-> symbolToShow,
                          correctAnswer |-> CHORD_QUALITIES(randomQualityKey).v.name,
                          answerOptions |-> answerOptions]),
                 !.feedback = "",
                 !.quizState = "question"]

\* Every state generateQuestion can leave.  The symbol shown for a key is
\* one of its non-empty abbreviations, or the first one when all are empty.
TheoryRevision_questions(s) ==
  LET symbolsOf(key) ==
        IF \E i \in 1..Len(abbrOf(key)) : abbrOf(key)[i] # ""
        THEN Range(abbrOf(key)) \ {""}
        ELSE IF Len(abbrOf(key)) > 0 THEN {abbrOf(key)[1]} ELSE {"?"}
  IN IF Len(s.settings.enabledQualities) = 0
     THEN {TheoryRevision_generateQuestion(s, Undefined, "", {})}
     ELSE UNION {{TheoryRevision_generateQuestion(s, key, symbol, options) :
                    symbol \in symbolsOf(key),
                    options \in answerOptionsOf(s.settings, CHORD_QUALITIES(key).v.name)} :
                 key \in Range(s.settings.enabledQualities) \cap DrawnQualities}

\* handleAnswer past its guard.
TheoryRevision_handleAnswer(s, selectedName) ==
  LET isCorrect == selectedName = s.currentQuestion.v.correctAnswer IN
  [s EXCEPT !.questionsAsked = @ + 1,
            !.feedback = IF isCorrect THEN "Correct!" ELSE "Incorrect.",
            !.score = IF isCorrect THEN @ + 1 ELSE @,
            !.quizState = "answered"]

TheoryRevision_applySettings(s) ==
  IF Len(s.tempSettings.enabledQualities) = 0
  THEN [s EXCEPT !.settingsError = "Please select at least one chord quality."]
  ELSE [s EXCEPT !.settings = s.tempSettings,
                 !.score = 0,
                 !.questionsAsked = 0,
                 !.feedback = "",
                 !.currentQuestion = None,
                 !.settingsError = "",
                 !.quizState = "idle"]

\* The checkboxes the user toggles: the last enabled quality is unchecked,
\* down to none, or the quality unchecked last is checked again.
ToggledQualities(enabled) ==
  {enabled[i] : i \in {Len(enabled)} \ {0}}
  \cup {TheoryRevision_defaultQualities[i] :
          i \in {Len(enabled) + 1} \cap (1..Len(TheoryRevision_defaultQualities))}

TheoryRevision_HandleQualityToggle ==
  /\ ui.component = "TheoryRevision"
  /\ \E qualityKey \in ToggledQualities(ui.tempSettings.enabledQualities) :
       Render([ui EXCEPT !.tempSettings.enabledQualities = toggled(@, qualityKey),
                         !.settingsError = ""])

TheoryRevision_ApplySettings ==
  /\ ui.component = "TheoryRevision"
  /\ \E s \in afterRender(TheoryRevision_applySettings(ui),
                          TheoryRevision_questions(TheoryRevision_applySettings(ui))) :
       Render(s)

\* The Next Question button, shown in the answered state.
TheoryRevision_NextQuestion ==
  /\ ui.component = "TheoryRevision"
  /\ ui.quizState = "answered"
  /\ \E s \in TheoryRevision_questions(ui) : Render(s)

\* The answer buttons, shown while the question is not answered.
TheoryRevision_HandleAnswer ==
  /\ ui.component = "TheoryRevision"
  /\ ui.quizState = "question"
  /\ ui.currentQuestion.some
  /\ ui.questionsAsked < MaxQuestions
  /\ \E selectedName \in ui.currentQuestion.v.answerOptions :
       Render(TheoryRevision_handleAnswer(ui, selectedName))

TheoryRevision_Next ==
  \/ TheoryRevision_HandleQualityToggle
  \/ TheoryRevision_ApplySettings
  \/ TheoryRevision_NextQuestion
  \/ TheoryRevision_HandleAnswer

(***************************************************************************)
(* IntervalTrainer.tsx                                                     *)
(***************************************************************************)
\* The values the user picks in the settings panel, the random draws
\* followed and the places clicked.
IntervalTrainer_ToggledStrings == {0}
IntervalTrainer_FretInputs == {<<"max", 10>>, <<"max", 13>>}
IntervalTrainer_ToggledIntervals == {"P5"}
IntervalTrainer_Constraints == {"any", "nextStringUp"}
IntervalTrainer_DrawnStrings == {0, 4}
IntervalTrainer_DrawnFrets == {0, 10}
IntervalTrainer_DrawnIntervals == {"M3"}
IntervalTrainer_ClickedStrings == {0, 4}
IntervalTrainer_ClickedFrets == {4}

IntervalTrainer_maxFrets == 12

IntervalTrainer_initial ==
  LET settings == [rootStrings |-> [i \in 1..Len(STANDARD_TUNING) |-> TRUE],
                   rootFretRange |-> [min |-> 0, max |-> 7],
                   intervals |-> <<"M3", "P4", "P5", "m3", "M7", "m7">>,
                   targetConstraint |-> "any"]
  IN [component |-> "IntervalTrainer",
      mode |-> "find",
      quizState |-> "settings",
      currentQuestion |-> None,
      feedback |-> "",
      score |-> 0,
      questionsAsked |-> 0,
      highlightedNotes |-> <<>>,
      settings |-> settings,
      tempSettings |-> settings,
      settingsError |-> "",
      timers |-> <<>>]

\* INTERVALS[key]?.semitones ?? 0
semitonesOf(key) == IF INTERVALS(key).some THEN INTERVALS(key).v.semitones ELSE 0

\* The results of getRandomRootPosition.  A draw is a selected string and a
\* fret of the range (those of DrawnStrings and DrawnFrets are followed); it
\* is kept unless the constraint has no string for it, it has no note, or
\* it is high on the neck while Math.max(0, ...semitones) is above 3.  The
\* result is a kept draw, or null when no string is selected or when 50
\* draws in a row are not kept.
getRandomRootPosition(settings) ==
  LET draws ==
        {[string |-> st, fret |-> f] :
           st \in {i \in 0..(Len(STANDARD_TUNING) - 1) : settings.rootStrings[i + 1]}
                    \cap IntervalTrainer_DrawnStrings,
           f \in (settings.rootFretRange.min..settings.rootFretRange.max)
                    \cap IntervalTrainer_DrawnFrets}
      kept(position) ==
        /\ ~(settings.targetConstraint = "nextStringUp" /\ position.string = 0)
        /\ ~(settings.targetConstraint = "nextStringDown" /\ position.string = Len(STANDARD_TUNING) - 1)
        /\ ~NoString(noteAt(position))
        /\ ~(/\ position.fret > IntervalTrainer_maxFrets - 3
             /\ \E i \in 1..Len(settings.intervals) : semitonesOf(settings.intervals[i]) > 3)
  IN {Some(p) : p \in {d \in draws : kept(d)}}
       \cup (IF \E d \in draws : ~kept(d) THEN {None} ELSE {})
       \cup (IF \A i \in 1..Len(STANDARD_TUNING) : ~settings.rootStrings[i] THEN {None} ELSE {})

\* The first occurrence of the note on the strings from index k on, string
\* by string and fret by fret, the root's own position skipped.
RECURSIVE searchStrings(_, _, _, _)
searchStrings(strings, k, rootPos, targetNoteName) ==
  IF k > Len(strings) THEN None
  ELSE LET frets == {f \in 0..IntervalTrainer_maxFrets :
                       /\ ~(strings[k] = rootPos.string /\ f = rootPos.fret)
                       /\ noteAt([string |-> strings[k], fret |-> f]) = targetNoteName}
       IN IF frets # {}
          THEN Some([string |-> strings[k], fret |-> CHOOSE f \in frets : \A g \in frets : f <= g])
          ELSE searchStrings(strings, k + 1, rootPos, targetNoteName)

\* findIntervalNotePosition: the strings the constraint allows are searched
\* in their order.
findIntervalNotePosition(settings, rootPos, targetNoteName, constraint) ==
  LET possibleStrings ==
        CASE constraint = "sameString" -> <<rootPos.string>>
          [] constraint = "nextStringUp" ->
               IF rootPos.string > 0 THEN <<rootPos.string - 1>> ELSE <<>>
          [] constraint = "nextStringDown" ->
               IF rootPos.string < Len(STANDARD_TUNING) - 1 THEN <<rootPos.string + 1>> ELSE <<>>
          [] OTHER ->
               SelectSeq([i \in 1..Len(STANDARD_TUNING) |-> i - 1],
                         LAMBDA i : settings.rootStrings[i + 1])
  IN searchStrings(possibleStrings, 1, rootPos, targetNoteName)

\* The short names the shuffled filter of INTERVAL_LIST can put first: up
\* to three enabled intervals other than the correct one.  The shuffle
\* that keeps the order of the list is followed.  With them the options
\* count four names, or as many as there are enabled intervals, so the
\* loop that fills the set up does not run.
IntervalTrainer_answerOptions(settings, correctAnswerShortName) ==
  LET candidates ==
        SelectSeq(INTERVAL_LIST,
                  LAMBDA int : /\ int.shortName # correctAnswerShortName
                               /\ IndexOf(settings.intervals, int.shortName) # -1)
      n == Len(candidates)
      k == IF n < 3 THEN n ELSE 3
  IN {{correctAnswerShortName} \cup {candidates[i].shortName : i \in 1..k}}

\* One pass of the loop of generateQuestion with a root position and an
\* interval key drawn: the states it can leave, none when it continues.
IntervalTrainer_attempt(s, rootPosition, randomIntervalKey) ==
  LET rootNote == noteAt(rootPosition)
      targetInterval == INTERVALS(randomIntervalKey)
      correctNoteName == getNoteFromInterval(rootNote, targetInterval.v)
      intervalNotePosition ==
        findIntervalNotePosition(s.settings, rootPosition, correctNoteName.v,
                                 s.settings.targetConstraint)
  IN IF NoString(rootNote) \/ ~targetInterval.some THEN {}
     ELSE IF ~correctNoteName.some \/ NoString(correctNoteName.v) THEN {}
     ELSE IF s.mode = "find"
     THEN {[s EXCEPT !.settingsError = "",
                     !.highlightedNotes = <<Highlight(rootPosition, "bg-blue-500", rootNote)>>,
                     !.currentQuestion =
                        Some([mode |-> "find", rootPosition |-> rootPosition,
                              rootNote |-> rootNote, targetInterval |-> targetInterval.v,
                              correctNoteName |-> correctNoteName.v,
                              intervalNotePosition |-> None, answerOptions |-> {}]),
                     !.feedback = "",
                     !.quizState = "question"]}
     ELSE IF ~intervalNotePosition.some THEN {}
     ELSE {[s EXCEPT !.settingsError = "",
                     !.highlightedNotes =
                        <<Highlight(rootPosition, "bg-blue-500", rootNote),
                          Highlight(intervalNotePosition.v, "bg-yellow-400",
                                    noteAt(intervalNotePosition.v))>>,
                     !.currentQuestion =
                        Some([mode |-> "identify", rootPosition |-> rootPosition,
                              rootNote |-> rootNote, targetInterval |-> targetInterval.v,
                              correctNoteName |-> Undefined,
                              intervalNotePosition |-> intervalNotePosition,
                              answerOptions |-> answerOptions]),
                     !.feedback = "",
                     !.quizState = "question"] :
             answerOptions \in IntervalTrainer_answerOptions(s.settings,
                                                             targetInterval.v.shortName)}

\* Every state generateQuestion can leave: a question of a pass that did
\* not continue; the settings state when there is no interval, when
\* getRandomRootPosition returns null, or when 50 passes continue.
IntervalTrainer_questions(s) ==
  LET roots == {r.v : r \in {x \in getRandomRootPosition(s.settings) : x.some}}
      keys == Range(s.settings.intervals) \cap IntervalTrainer_DrawnIntervals
      back(message) == [s EXCEPT !.settingsError = message, !.quizState = "settings"]
  IN IF Len(s.settings.intervals) = 0
     THEN {back("Please select at least one interval.")}
     ELSE UNION {IntervalTrainer_attempt(s, r, key) : r \in roots, key \in keys}
          \cup (IF None \in getRandomRootPosition(s.settings)
                THEN {back(IF \A i \in 1..Len(STANDARD_TUNING) : ~s.settings.rootStrings[i]
                           THEN "Please select at least one string for the root note."
                           ELSE "Could not find a suitable root note position. Try adjusting settings.")}
                ELSE {})
          \cup (IF \E r \in roots, key \in keys : IntervalTrainer_attempt(s, r, key) = {}
                THEN {back("Could not generate a valid question with the current constraints")}
                ELSE {})

\* The guard of handleFretClick.
IntervalTrainer_finding(s) ==
  /\ s.quizState = "question"
  /\ s.currentQuestion.some
  /\ s.currentQuestion.v.mode = "find"
  /\ ~NoString(s.currentQuestion.v.correctNoteName)
  /\ ~NoString(s.currentQuestion.v.rootNote)

\* The constraint check of handleFretClick.
constraintSatisfied(constraint, rootPos, clickedPosition) ==
  /\ ~(constraint = "sameString" /\ clickedPosition.string # rootPos.string)
  /\ ~(constraint = "nextStringUp" /\ clickedPosition.string # rootPos.string - 1)
  /\ ~(constraint = "nextStringDown" /\ clickedPosition.string # rootPos.string + 1)

\* handleFretClick past its guard (the feedback texts without the names
\* they quote).  A click that breaks the constraint appends the marker
\* { ...clickedPosition, color: 'bg-gray-400', label: 'X' } and starts a
\* timer.  For a wrong note the correct position under the constraint is
\* highlighted too, or else any correct position.
IntervalTrainer_handleFretClick(s, clickedPosition) ==
  LET q == s.currentQuestion.v
      rootPos == q.rootPosition
      constraint == s.settings.targetConstraint
      clickedNoteName == noteAt(clickedPosition)
      isCorrect == clickedNoteName = q.correctNoteName
      rootHighlight == Highlight(rootPos, "bg-blue-300", q.rootNote)
      correctPos ==
        findIntervalNotePosition(s.settings, rootPos, q.correctNoteName, constraint)
      anyCorrectPos ==
        findIntervalNotePosition(s.settings, rootPos, q.correctNoteName, "any")
      correctHighlights ==
        IF correctPos.some /\ correctPos.v # clickedPosition
        THEN <<Highlight(correctPos.v, "bg-green-200 border border-green-600",
                         q.correctNoteName)>>
        ELSE IF constraint # "any" /\ anyCorrectPos.some /\ anyCorrectPos.v # clickedPosition
        THEN <<Highlight(anyCorrectPos.v, "bg-yellow-300 border border-yellow-600",
                         q.correctNoteName)>>
        ELSE <<>>
  IN IF ~constraintSatisfied(constraint, rootPos, clickedPosition)
     THEN [s EXCEPT !.feedback = "Interval must be on",
                    !.highlightedNotes =
                       Append(@, Highlight(clickedPosition, "bg-gray-400", "X")),
                    !.timers = Append(@, clickedPosition)]
     ELSE IF NoString(clickedNoteName) THEN s
     ELSE [s EXCEPT !.questionsAsked = @ + 1,
                    !.feedback = IF isCorrect THEN "Correct! That's" ELSE "Incorrect. That was",
                    !.score = IF isCorrect THEN @ + 1 ELSE @,
                    !.highlightedNotes =
                       IF isCorrect
                       THEN <<rootHighlight,
                              Highlight(clickedPosition, "bg-green-500", clickedNoteName)>>
                       ELSE <<rootHighlight,
                              Highlight(clickedPosition, "bg-red-500", clickedNoteName)>>
                            \o correctHighlights,
                    !.quizState = "answered"]

\* The guard of handleIdentifyAnswer.
IntervalTrainer_identifying(s) ==
  /\ s.quizState = "question"
  /\ s.currentQuestion.some
  /\ s.currentQuestion.v.mode = "identify"
  /\ s.currentQuestion.v.intervalNotePosition.some

IntervalTrainer_handleIdentifyAnswer(s, selectedIntervalShortName) ==
  LET q == s.currentQuestion.v
      isCorrect == selectedIntervalShortName = q.targetInterval.shortName
      intervalNote == noteAt(q.intervalNotePosition.v)
  IN [s EXCEPT !.questionsAsked = @ + 1,
               !.feedback = IF isCorrect THEN "Correct!" ELSE "Incorrect. The interval was",
               !.score = IF isCorrect THEN @ + 1 ELSE @,
               !.highlightedNotes =
                  IF isCorrect
                  THEN <<Highlight(q.rootPosition, "bg-green-500", q.rootNote),
                         Highlight(q.intervalNotePosition.v, "bg-green-500", intervalNote)>>
                  ELSE <<Highlight(q.rootPosition, "bg-blue-500", q.rootNote),
                         Highlight(q.intervalNotePosition.v, "bg-red-500", intervalNote)>>,
               !.quizState = "answered"]

\* Array.from(s).sort(...): the keys by their semitones, smallest first
\* (a stable insertion, as the keys were in the array).
RECURSIVE insertBySemitones(_, _)
insertBySemitones(sorted, key) ==
  IF sorted = <<>> THEN <<key>>
  ELSE IF semitonesOf(Head(sorted)) <= semitonesOf(key)
       THEN <<Head(sorted)>> \o insertBySemitones(Tail(sorted), key)
       ELSE <<key>> \o sorted

RECURSIVE sortBySemitones(_)
sortBySemitones(arr) ==
  IF arr = <<>> THEN <<>>
  ELSE insertBySemitones(sortBySemitones(SubSeq(arr, 1, Len(arr) - 1)), arr[Len(arr)])

IntervalTrainer_applySettings(s) ==
  IF \A i \in 1..Len(s.tempSettings.rootStrings) : ~s.tempSettings.rootStrings[i]
  THEN [s EXCEPT !.settingsError = "Select root string(s)."]
  ELSE IF Len(s.tempSettings.intervals) = 0
  THEN [s EXCEPT !.settingsError = "Select interval(s)."]
  ELSE IF s.tempSettings.rootFretRange.min > s.tempSettings.rootFretRange.max
  THEN [s EXCEPT !.settingsError = "Min root fret > Max root fret."]
  ELSE [s EXCEPT !.settings = s.tempSettings,
                 !.score = 0,
                 !.questionsAsked = 0,
                 !.feedback = "",
                 !.currentQuestion = None,
                 !.highlightedNotes = <<>>,
                 !.settingsError = "",
                 !.quizState = "idle"]

\* The mode radio buttons, enabled in the settings state only.
IntervalTrainer_SetMode ==
  /\ ui.component = "IntervalTrainer"
  /\ ui.quizState = "settings"
  /\ \E mode \in {"find", "identify"} :
       /\ mode # ui.mode
       /\ Render([ui EXCEPT !.mode = mode])

IntervalTrainer_HandleRootStringToggle ==
  /\ ui.component = "IntervalTrainer"
  /\ \E index \in IntervalTrainer_ToggledStrings :
       Render([ui EXCEPT !.tempSettings.rootStrings[index + 1] = ~@, !.settingsError = ""])

\* handleRootFretRangeChange: a number that fails the check is ignored, and
\* the other end of the range follows a number that crosses it.
IntervalTrainer_HandleRootFretRangeChange ==
  /\ ui.component = "IntervalTrainer"
  /\ \E input \in IntervalTrainer_FretInputs :
       LET name == input[1]
           n == input[2]
           r == [ui.tempSettings.rootFretRange EXCEPT ![name] = n]
           adjusted == IF name = "min" /\ n > r.max THEN [r EXCEPT !.max = n]
                       ELSE IF name = "max" /\ n < r.min THEN [r EXCEPT !.min = n]
                       ELSE r
       IN /\ ~(n < 0 \/ n > IntervalTrainer_maxFrets)
          /\ Render([ui EXCEPT !.tempSettings.rootFretRange = adjusted,
                               !.settingsError = ""])

IntervalTrainer_HandleIntervalToggle ==
  /\ ui.component = "IntervalTrainer"
  /\ \E intervalKey \in IntervalTrainer_ToggledIntervals :
       Render([ui EXCEPT !.tempSettings.intervals = sortBySemitones(toggled(@, intervalKey)),
                         !.settingsError = ""])

IntervalTrainer_HandleTargetConstraintChange ==
  /\ ui.component = "IntervalTrainer"
  /\ \E value \in IntervalTrainer_Constraints :
       /\ value # ui.tempSettings.targetConstraint
       /\ Render([ui EXCEPT !.tempSettings.targetConstraint = value,
                            !.settingsError = ""])

\* The Apply button, and the effect of the render that follows.
IntervalTrainer_ApplySettings ==
  /\ ui.component = "IntervalTrainer"
  /\ \E s \in afterRender(IntervalTrainer_applySettings(ui),
                          IntervalTrainer_questions(IntervalTrainer_applySettings(ui))) :
       Render(s)

\* The Next Question button, shown in the answered state.
IntervalTrainer_NextQuestion ==
  /\ ui.component = "IntervalTrainer"
  /\ ui.quizState = "answered"
  /\ \E s \in IntervalTrainer_questions(ui) : Render(s)

\* The option buttons, shown for an identify question that is not answered.
IntervalTrainer_HandleIdentifyAnswer ==
  /\ ui.component = "IntervalTrainer"
  /\ ui.mode = "identify"
  /\ IntervalTrainer_identifying(ui)
  /\ ui.questionsAsked < MaxQuestions
  /\ \E selectedIntervalShortName \in ui.currentQuestion.v.answerOptions :
       Render(IntervalTrainer_handleIdentifyAnswer(ui, selectedIntervalShortName))

\* A click on the fretboard, which has the handler in find mode while the
\* question is not answered.
IntervalTrainer_HandleFretClick ==
  /\ ui.component = "IntervalTrainer"
  /\ ui.mode = "find"
  /\ IntervalTrainer_finding(ui)
  /\ ui.questionsAsked < MaxQuestions
  /\ Len(ui.timers) < MaxTimers
  /\ Len(ui.highlightedNotes) <= MaxMarkers
  /\ \E st \in IntervalTrainer_ClickedStrings, f \in IntervalTrainer_ClickedFrets :
       Render(IntervalTrainer_handleFretClick(ui, [string |-> st, fret |-> f]))

\* The oldest timer fires (all timers have the same delay): its callback
\* filters highlightedNotes for the position of its click.
IntervalTrainer_Timeout ==
  /\ ui.component = "IntervalTrainer"
  /\ ui.timers # <<>>
  /\ Render([ui EXCEPT !.timers = Tail(@),
                       !.highlightedNotes = withoutGrayAt(@, Head(ui.timers))])

IntervalTrainer_Next ==
  \/ IntervalTrainer_SetMode
  \/ IntervalTrainer_HandleRootStringToggle
  \/ IntervalTrainer_HandleRootFretRangeChange
  \/ IntervalTrainer_HandleIntervalToggle
  \/ IntervalTrainer_HandleTargetConstraintChange
  \/ IntervalTrainer_ApplySettings
  \/ IntervalTrainer_NextQuestion
  \/ IntervalTrainer_HandleIdentifyAnswer
  \/ IntervalTrainer_HandleFretClick
  \/ IntervalTrainer_Timeout

(***************************************************************************)
(* ChordTrainer.tsx                                                        *)
(***************************************************************************)
\* The checkboxes the user toggles (the other settings keep their
\* defaults), the random draws followed and the places clicked.
ToggledVoicings == {"drop3"}
ToggledStringSets == {"4321"}
DrawnRoots == {"C"}
DrawnChordQualities == {"major", "dominant7"}
DrawnVoicings == {"inv1"}
DrawnStringSets == {"any", "432"}
BuildClickedStrings == {1, 5}
BuildClickedFrets == {0, 1}

ChordTrainer_maxFrets == 12

\* AVAILABLE_STRING_SETS[key].
AVAILABLE_STRING_SET(key) ==
  CASE key = "543" -> <<2, 3, 4>>
    [] key = "432" -> <<1, 2, 3>>
    [] key = "321" -> <<0, 1, 2>>
    [] key = "654" -> <<3, 4, 5>>
    [] key = "5432" -> <<1, 2, 3, 4>>
    [] key = "4321" -> <<0, 1, 2, 3>>
    [] key = "any" -> <<>>

ChordTrainer_initial ==
  LET settings == [enabledRootNotes |-> <<"C", "F", "G", "A", "D", "E", "B">>,
                   enabledQualities |-> <<"major", "minor", "dominant7", "major7",
                                          "minor7", "minor7flat5">>,
                   enabledVoicings |-> <<"root", "inv1", "inv2", "drop2", "drop3">>,
                   enabledStringSets |-> <<"any", "543", "432", "321", "4321">>,
                   applicableChordTypes |-> "all"]
  IN [component |-> "ChordTrainer",
      mode |-> "identify",
      quizState |-> "settings",
      currentQuestion |-> None,
      feedback |-> "",
      score |-> 0,
      questionsAsked |-> 0,
      highlightedNotes |-> <<>>,
      selectedBuildNotes |-> <<>>,
      settings |-> settings,
      tempSettings |-> settings,
      settingsError |-> "",
      timers |-> 0]

\* null is None.
getVoicingTypeFromSetting(setting) ==
  CASE setting = "root" -> Some(RootPosition)
    [] setting = "inv1" -> Some(FIRST)
    [] setting = "inv2" -> Some(SECOND)
    [] setting = "drop2" -> Some(DROP_2)
    [] setting = "drop3" -> Some(DROP_3)
    [] setting = "any" -> Some(RootPosition)
    [] OTHER -> None

\* Array.from(new Set(notes)): the notes without their later repeats.
RECURSIVE uniqueNotes(_)
uniqueNotes(notes) ==
  IF notes = <<>> THEN <<>>
  ELSE LET front == uniqueNotes(SubSeq(notes, 1, Len(notes) - 1)) IN
       IF IndexOf(front, notes[Len(notes)]) # -1 THEN front
       ELSE Append(front, notes[Len(notes)])

\* The branch of findVoicingPositions for the string set 'any': the first
\* place of each note, fret by fret and string by string.
RECURSIVE placesOf(_)
placesOf(notes) ==
  IF notes = <<>> THEN <<>>
  ELSE LET places == {<<f, st>> \in (0..ChordTrainer_maxFrets) \X (0..(Len(STANDARD_TUNING) - 1)) :
                        noteAt([string |-> st, fret |-> f]) = Head(notes)}
           first == CHOOSE p \in places :
                      \A q \in places : p[1] < q[1] \/ (p[1] = q[1] /\ p[2] <= q[2])
       IN (IF places = {} THEN <<>> ELSE <<[string |-> first[2], fret |-> first[1]]>>)
            \o placesOf(Tail(notes))

findVoicingPositions(chord, voicingType, stringSetKey) ==
  IF stringSetKey = "any"
  THEN LET positions == placesOf(uniqueNotes(chord.notes)) IN
       IF Len(positions) = Len(uniqueNotes(chord.notes))
       THEN Some(SortByString(positions)) ELSE None
  ELSE findVoicingOnStrings(chord, voicingType, AVAILABLE_STRING_SET(stringSetKey),
                            Some(ChordTrainer_maxFrets)).value

\* getChordDisplayName: the text as its parts (root, abbreviation, bass
\* note after the slash); no inversion given is None.  The abbreviation is
\* quality.abbr[0] ?? '' of the catalog entry with that name.
getChordDisplayName(rootNote, quality, inversion) ==
  LET keys == {i \in 1..Len(CHORD_QUALITY_LIST) : CHORD_QUALITY_LIST[i].name = quality.name}
      baseAbbr == IF keys = {} THEN ""
                  ELSE abbrOf(ChordQualityKeys[CHOOSE i \in keys : TRUE])[1]
      baseName == <<rootNote, baseAbbr, "">>
      chord == getChord(rootNote, quality)
  IN IF ~inversion.some \/ StrictEq(inversion.v, ROOT) THEN baseName
     ELSE IF ~chord.some \/ Len(chord.v.notes) # 3 THEN baseName
     ELSE IF StrictEq(inversion.v, FIRST) THEN <<rootNote, baseAbbr, chord.v.notes[2]>>
     ELSE IF StrictEq(inversion.v, SECOND) THEN <<rootNote, baseAbbr, chord.v.notes[3]>>
     ELSE baseName

voicingNameOf(voicingSetting) ==
  CASE voicingSetting = "inv1" -> " (1st Inversion)"
    [] voicingSetting = "inv2" -> " (2nd Inversion)"
    [] voicingSetting = "drop2" -> " (Drop 2)"
    [] voicingSetting = "drop3" -> " (Drop 3)"
    [] OTHER -> ""

\* The name of a chord in a question: the display name, the voicing name
\* of a chord that is no triad, and the string set.
chordNameOf(rootNote, quality, isTriad, voicingType, voicingName, stringSetKey) ==
  [display |-> IF isTriad THEN getChordDisplayName(rootNote, quality, Some(voicingType))
               ELSE getChordDisplayName(rootNote, quality, None),
   voicing |-> IF isTriad THEN "" ELSE voicingName,
   strings |-> IF stringSetKey # "any" THEN stringSetKey ELSE ""]

\* The voicing setting after the two checks of applicability: a setting
\* that does not fit the chord becomes 'root' or 'any' when enabled, and
\* the pass continues (None) otherwise.
fittingVoicing(settings, voicingSetting, chord) ==
  LET isTriad == Len(chord.notes) = 3
      isSeventh == Len(chord.notes) = 4
      unfit == \/ voicingSetting \in {"inv1", "inv2"} /\ ~isTriad
               \/ voicingSetting \in {"drop2", "drop3"} /\ ~isSeventh
  IN IF ~unfit THEN Some(voicingSetting)
     ELSE IF IndexOf(settings.enabledVoicings, "root") # -1 THEN Some("root")
     ELSE IF IndexOf(settings.enabledVoicings, "any") # -1 THEN Some("any")
     ELSE None

\* The string set after the check of its length.
fittingStringSet(settings, stringSetKey, expectedNoteCount) ==
  LET compatible == {i \in 1..Len(settings.enabledStringSets) :
                       /\ settings.enabledStringSets[i] # "any"
                       /\ Len(AVAILABLE_STRING_SET(settings.enabledStringSets[i]))
                            = expectedNoteCount}
  IN IF stringSetKey = "any" \/ Len(AVAILABLE_STRING_SET(stringSetKey)) = expectedNoteCount
     THEN Some(stringSetKey)
     ELSE IF compatible # {}
     THEN Some(settings.enabledStringSets[CHOOSE i \in compatible : \A j \in compatible : i <= j])
     ELSE IF IndexOf(settings.enabledStringSets, "any") # -1 THEN Some("any")
     ELSE None

\* An element of highlightedNotes or of selectedBuildNotes of the chord
\* trainer; a property the object does not have reads undefined.
ChordNote(position, color, label, noteName) ==
  [string |-> position.string, fret |-> position.fret,
   color |-> color, label |-> label, noteName |-> noteName]

\* { ...n, color }
recoloured(notes, color) == [i \in 1..Len(notes) |-> [notes[i] EXCEPT !.color = color]]

\* The conceptual order of the notes of a voicing type (null is None).
targetNoteOrderOf(chord, voicingType) ==
  IF StrictEq(voicingType, ROOT) \/ StrictEq(voicingType, FIRST) \/ StrictEq(voicingType, SECOND)
  THEN getTriadInversionNotes(chord, voicingType)
  ELSE IF StrictEq(voicingType, DROP_2) THEN getDrop2VoicingNotes(chord)
  ELSE IF StrictEq(voicingType, DROP_3) THEN getDrop3VoicingNotes(chord)
  ELSE IF StrictEq(voicingType, RootPosition) THEN Some(chord.notes)
  ELSE None

\* The names of the distractors: those of the first three qualities of the
\* shuffled list of the other qualities; the shuffle that keeps the order
\* of the list is followed.
ChordTrainer_distractors(randomRoot, randomQuality, voicingSetting, voicingType, stringSetKey) ==
  LET others == SelectSeq(CHORD_QUALITY_LIST, LAMBDA q : q.name # randomQuality.name)
      distractorName(q) ==
        LET distChord == getChord(randomRoot, q)
            distIsTriad == Len(distChord.v.notes) = 3
            distVoicingName ==
              IF distIsTriad /\ voicingSetting \in {"inv1", "inv2"}
              THEN voicingNameOf(voicingSetting)
              ELSE IF ~distIsTriad /\ voicingSetting \in {"drop2", "drop3"}
              THEN voicingNameOf(voicingSetting)
              ELSE ""
        IN IF ~distChord.some
           THEN [display |-> <<"Invalid Distractor", "", "">>, voicing |-> "", strings |-> ""]
           ELSE chordNameOf(randomRoot, q, distIsTriad, voicingType, distVoicingName,
                            stringSetKey)
  IN {distractorName(others[i]) : i \in 1..3}

\* A pass from the search of the positions on: the pass continues when no
\* position or no order of the notes is found, and leaves the state set for
\* the question otherwise.  targetNotes are the found positions with their
\* note names, the root in red.
ChordTrainer_found(s, randomRoot, randomQuality, isTriad, voicingSetting, voicingType, stringSetKey, foundPositions, targetNoteOrder, correctChordName) ==
  LET targetNotes ==
        [i \in 1..Len(foundPositions.v) |->
           ChordNote(foundPositions.v[i],
                     IF noteAt(foundPositions.v[i]) = randomRoot
                     THEN "bg-red-500" ELSE "bg-sky-500",
                     noteAt(foundPositions.v[i]), Undefined)]
  IN IF ~foundPositions.some THEN {}
     ELSE IF Len(foundPositions.v) = 0 THEN {}
     ELSE IF ~targetNoteOrder.some THEN {}
     ELSE {[s EXCEPT
              !.settingsError = "",
              !.highlightedNotes = IF s.mode = "identify" THEN targetNotes ELSE <<>>,
              !.selectedBuildNotes = IF s.mode = "identify" THEN @ ELSE <<>>,
              !.currentQuestion =
                 Some([mode |-> s.mode,
                       rootNote |-> randomRoot,
                       quality |-> randomQuality,
                       voicingSetting |-> voicingSetting,
                       stringSetKey |-> stringSetKey,
                       correctChordName |-> correctChordName,
                       targetNotes |-> targetNotes,
                       targetNoteOrder |-> targetNoteOrder.v,
                       answerOptions |->
                         IF s.mode = "identify"
                         THEN {correctChordName} \cup
                              ChordTrainer_distractors(randomRoot, randomQuality,
                                                       voicingSetting, voicingType,
                                                       stringSetKey)
                         ELSE {}]),
              !.feedback = "",
              !.quizState = "question"]}

\* A pass from the voicing that fits the chord on.
ChordTrainer_voiced(s, randomRoot, randomQuality, chord, voicingSetting, stringSetKey, voicingType) ==
  IF ~stringSetKey.some THEN {}
  ELSE IF ~voicingType.some THEN {}
  ELSE ChordTrainer_found(s, randomRoot, randomQuality, Len(chord.notes) = 3, voicingSetting,
                          voicingType.v, stringSetKey.v,
                          findVoicingPositions(chord, voicingType.v, stringSetKey.v),
                          targetNoteOrderOf(chord, voicingType.v),
                          chordNameOf(randomRoot, randomQuality, Len(chord.notes) = 3,
                                      voicingType.v, voicingNameOf(voicingSetting),
                                      stringSetKey.v))

\* A pass from the chord on: the voicing that fits the chord, and the
\* string set that has the number of notes the voicing needs.
ChordTrainer_drawn(s, randomRoot, randomQuality, chord, drawnVoicing, drawnStringSetKey) ==
  LET voicing == fittingVoicing(s.settings, drawnVoicing, chord.v)
      expectedNoteCount ==
        IF voicing.v \in {"drop2", "drop3"} THEN 4
        ELSE IF voicing.v \in {"inv1", "inv2"} THEN 3
        ELSE Len(chord.v.notes)
  IN IF ~chord.some THEN {}
     ELSE IF ~voicing.some THEN {}
     ELSE ChordTrainer_voiced(s, randomRoot, randomQuality, chord.v, voicing.v,
                              fittingStringSet(s.settings, drawnStringSetKey,
                                               expectedNoteCount),
                              getVoicingTypeFromSetting(voicing.v))

\* One pass of the loop of generateQuestion with its four draws: the state
\* it leaves, none when it continues.
ChordTrainer_attempt(s, randomRoot, randomQualityKey, drawnVoicing, drawnStringSetKey) ==
  LET randomQuality == CHORD_QUALITIES(randomQualityKey)
  IN IF ~randomQuality.some THEN {}
     ELSE ChordTrainer_drawn(s, randomRoot, randomQuality.v,
                              getChord(randomRoot, randomQuality.v),
                              drawnVoicing, drawnStringSetKey)

\* The states the loop of generateQuestion can leave, from what each of
\* its passes can leave: the question of a pass that did not continue, and
\* the settings state when 50 passes continue.
ChordTrainer_looped(s, passes) ==
  UNION passes
  \cup (IF {} \in passes
        THEN {[s EXCEPT !.settingsError = "Failed to generate a valid/playable chord with current settings after 50 attempts. Please adjust settings.",
                        !.quizState = "settings"]}
        ELSE {})

\* Every state generateQuestion can leave in the chord trainer.
ChordTrainer_questions(s) ==
  IF \/ Len(s.settings.enabledRootNotes) = 0
     \/ Len(s.settings.enabledQualities) = 0
     \/ Len(s.settings.enabledVoicings) = 0
     \/ Len(s.settings.enabledStringSets) = 0
  THEN {[s EXCEPT !.settingsError = "Please select at least one option for each setting category.",
                  !.quizState = "settings"]}
  ELSE ChordTrainer_looped(s,
         {ChordTrainer_attempt(s, d[1], d[2], d[3], d[4]) :
            d \in (Range(s.settings.enabledRootNotes) \cap DrawnRoots)
                    \X (Range(s.settings.enabledQualities) \cap DrawnChordQualities)
                    \X (Range(s.settings.enabledVoicings) \cap DrawnVoicings)
                    \X (Range(s.settings.enabledStringSets) \cap DrawnStringSets)})

\* handleIdentifyAnswer past its guard.
ChordTrainer_handleIdentifyAnswer(s, selectedName) ==
  LET q == s.currentQuestion.v
      isCorrect == selectedName = q.correctChordName
  IN [s EXCEPT !.questionsAsked = @ + 1,
               !.feedback = IF isCorrect THEN "Correct!" ELSE "Incorrect. The chord was",
               !.score = IF isCorrect THEN @ + 1 ELSE @,
               !.highlightedNotes =
                  recoloured(q.targetNotes, IF isCorrect THEN "bg-green-500" ELSE "bg-red-500"),
               !.quizState = "answered"]

\* An updater that adds the clicked note whatever the selection holds.
selectionAfterClickAdding(prev, clickedPosition, clickedNoteName) ==
  Append(prev, ChordNote(clickedPosition, Undefined, Undefined, clickedNoteName))

\* The updater handleBuildFretClick passes to setSelectedBuildNotes: index
\* is prev.findIndex(note => note.string === clickedPosition.string),
\* 0-based, and the note found is taken out by splice(index, 1) or replaced.
selectionAfterClick(prev, clickedPosition, clickedNoteName) ==
  LET found == {i \in 1..Len(prev) : prev[i].string = clickedPosition.string}
      existingNoteIndex ==
        IF found = {} THEN -1 ELSE (CHOOSE i \in found : \A j \in found : i <= j) - 1
      note == ChordNote(clickedPosition, Undefined, Undefined, clickedNoteName)
  IN IF existingNoteIndex > -1
     THEN IF prev[existingNoteIndex + 1].fret = clickedPosition.fret
          THEN SubSeq(prev, 1, existingNoteIndex)
                 \o SubSeq(prev, existingNoteIndex + 2, Len(prev))
          ELSE [prev EXCEPT ![existingNoteIndex + 1] = note]
     ELSE Append(prev, note)

\* The guard of handleBuildFretClick and of checkBuildAnswer.
ChordTrainer_building(s) ==
  /\ s.quizState = "question"
  /\ s.currentQuestion.some
  /\ s.currentQuestion.v.mode = "build"

\* handleBuildFretClick past its guard: a click off the string set of the
\* question leaves a message and starts a timer of 2000 ms.
ChordTrainer_handleBuildFretClick(s, clickedPosition) ==
  LET clickedNoteName == noteAt(clickedPosition)
      stringSetKey == s.currentQuestion.v.stringSetKey
      targetStringSet == AVAILABLE_STRING_SET(stringSetKey)
  IN IF NoString(clickedNoteName) THEN s
     ELSE IF stringSetKey # "any" /\ IndexOf(targetStringSet, clickedPosition.string) = -1
     THEN [s EXCEPT !.feedback = "Please select notes only on strings",
                    !.timers = @ + 1]
     ELSE [s EXCEPT !.selectedBuildNotes =
                       selectionAfterClick(@, clickedPosition, clickedNoteName)]

\* The effect on selectedBuildNotes, quizState and mode: in a build
\* question the fretboard shows the selection.
ChordTrainer_showSelection(s) ==
  IF s.quizState = "question" /\ s.mode = "build"
  THEN [s EXCEPT !.highlightedNotes =
                    [i \in 1..Len(s.selectedBuildNotes) |->
                       ChordNote(s.selectedBuildNotes[i], "bg-teal-400",
                                 s.selectedBuildNotes[i].noteName, Undefined)]]
  ELSE s

\* The forEach of checkBuildAnswer over the user's notes from index i on:
\* a note on a place that is shown and is no target replaces it, a note on
\* a place that is not shown is added.
RECURSIVE overlaid(_, _, _, _)
overlaid(combinedHighlights, userHighlights, i, targetPositionKeys) ==
  IF i > Len(userHighlights) THEN combinedHighlights
  ELSE LET userNote == userHighlights[i]
           found == {k \in 1..Len(combinedHighlights) :
                       /\ combinedHighlights[k].string = userNote.string
                       /\ combinedHighlights[k].fret = userNote.fret}
           existingIndex == IF found = {} THEN -1
                            ELSE (CHOOSE k \in found : \A j \in found : k <= j) - 1
           next == IF existingIndex > -1
                      /\ <<userNote.string, userNote.fret>> \notin targetPositionKeys
                   THEN [combinedHighlights EXCEPT ![existingIndex + 1] = userNote]
                   ELSE IF existingIndex = -1 THEN Append(combinedHighlights, userNote)
                   ELSE combinedHighlights
       IN overlaid(next, userHighlights, i + 1, targetPositionKeys)

\* checkBuildAnswer past its guard.
ChordTrainer_checkBuildAnswer(s) ==
  LET q == s.currentQuestion.v
      selected == s.selectedBuildNotes
      PositionsOf(notes) == {<<notes[i].string, notes[i].fret>> : i \in 1..Len(notes)}
      targetPositionKeys == PositionsOf(q.targetNotes)
      positionsMatch == PositionsOf(selected) = targetPositionKeys
      setsMatch == {selected[i].noteName : i \in 1..Len(selected)}
                     = {q.targetNotes[i].label : i \in 1..Len(q.targetNotes)}
      yellow == recoloured(q.targetNotes, "bg-yellow-300 border border-yellow-600")
  IN IF Len(selected) # Len(q.targetNotes)
     THEN [s EXCEPT !.questionsAsked = @ + 1,
                    !.feedback = "Incorrect. Expected",
                    !.quizState = "answered",
                    !.highlightedNotes = yellow]
     ELSE IF positionsMatch
     THEN [s EXCEPT !.questionsAsked = @ + 1,
                    !.feedback = "Correct!",
                    !.score = @ + 1,
                    !.highlightedNotes = recoloured(selected, "bg-green-500"),
                    !.quizState = "answered"]
     ELSE [s EXCEPT !.questionsAsked = @ + 1,
                    !.feedback = IF setsMatch
                                 THEN "Notes are correct, but the positions/voicing are wrong for"
                                 ELSE "Incorrect notes/positions for",
                    !.highlightedNotes =
                       overlaid(yellow, recoloured(selected, "bg-red-500"), 1, targetPositionKeys),
                    !.quizState = "answered"]

ChordTrainer_applySettings(s) ==
  IF Len(s.tempSettings.enabledRootNotes) = 0
  THEN [s EXCEPT !.settingsError = "Select root note(s)."]
  ELSE IF Len(s.tempSettings.enabledQualities) = 0
  THEN [s EXCEPT !.settingsError = "Select quality(ies)."]
  ELSE IF Len(s.tempSettings.enabledVoicings) = 0
  THEN [s EXCEPT !.settingsError = "Select voicing(s)."]
  ELSE IF Len(s.tempSettings.enabledStringSets) = 0
  THEN [s EXCEPT !.settingsError = "Select string set(s)."]
  ELSE [s EXCEPT !.settings = s.tempSettings,
                 !.score = 0,
                 !.questionsAsked = 0,
                 !.feedback = "",
                 !.currentQuestion = None,
                 !.highlightedNotes = <<>>,
                 !.settingsError = "",
                 !.quizState = "idle"]

\* The mode radio buttons, enabled in the settings state only.
ChordTrainer_SetMode ==
  /\ ui.component = "ChordTrainer"
  /\ ui.quizState = "settings"
  /\ \E mode \in {"identify", "build"} :
       /\ mode # ui.mode
       /\ Render([ui EXCEPT !.mode = mode])

ChordTrainer_HandleVoicingToggle ==
  /\ ui.component = "ChordTrainer"
  /\ \E voicing \in ToggledVoicings :
       Render([ui EXCEPT !.tempSettings.enabledVoicings = toggled(@, voicing),
                         !.settingsError = ""])

ChordTrainer_HandleStringSetToggle ==
  /\ ui.component = "ChordTrainer"
  /\ \E setKey \in ToggledStringSets :
       Render([ui EXCEPT !.tempSettings.enabledStringSets = toggled(@, setKey),
                         !.settingsError = ""])

\* The Apply button, and the effects of the renders that follow: the
\* question is generated, and the selection is shown after that.
ChordTrainer_ApplySettings ==
  /\ ui.component = "ChordTrainer"
  /\ \E s \in afterRender(ChordTrainer_applySettings(ui),
                          ChordTrainer_questions(ChordTrainer_applySettings(ui))) :
       Render(ChordTrainer_showSelection(s))

\* The Next Question button, shown in the answered state.
ChordTrainer_NextQuestion ==
  /\ ui.component = "ChordTrainer"
  /\ ui.quizState = "answered"
  /\ \E s \in ChordTrainer_questions(ui) : Render(ChordTrainer_showSelection(s))

\* The name buttons, shown for an identify question that is not answered.
ChordTrainer_HandleIdentifyAnswer ==
  /\ ui.component = "ChordTrainer"
  /\ ui.quizState = "question"
  /\ ui.mode = "identify"
  /\ ui.currentQuestion.some
  /\ ui.currentQuestion.v.mode = "identify"
  /\ ui.questionsAsked < MaxQuestions
  /\ \E selectedName \in ui.currentQuestion.v.answerOptions :
       Render(ChordTrainer_handleIdentifyAnswer(ui, selectedName))

\* A click on the fretboard, which has the handler in build mode while the
\* question is not answered.
ChordTrainer_HandleBuildFretClick ==
  /\ ui.component = "ChordTrainer"
  /\ ui.mode = "build"
  /\ ChordTrainer_building(ui)
  /\ ui.timers < MaxTimers
  /\ \E st \in BuildClickedStrings, f \in BuildClickedFrets :
       Render(ChordTrainer_showSelection(
                ChordTrainer_handleBuildFretClick(ui, [string |-> st, fret |-> f])))

\* The Check Answer button, enabled while a note is selected.
ChordTrainer_CheckBuildAnswer ==
  /\ ui.component = "ChordTrainer"
  /\ ui.mode = "build"
  /\ ChordTrainer_building(ui)
  /\ Len(ui.selectedBuildNotes) # 0
  /\ ui.questionsAsked < MaxQuestions
  /\ Render(ChordTrainer_checkBuildAnswer(ui))

\* A timer of a turned-down click fires: setFeedback("").
ChordTrainer_Timeout ==
  /\ ui.component = "ChordTrainer"
  /\ ui.timers > 0
  /\ Render([ui EXCEPT !.feedback = "", !.timers = @ - 1])

ChordTrainer_Next ==
  \/ ChordTrainer_SetMode
  \/ ChordTrainer_HandleVoicingToggle
  \/ ChordTrainer_HandleStringSetToggle
  \/ ChordTrainer_ApplySettings
  \/ ChordTrainer_NextQuestion
  \/ ChordTrainer_HandleIdentifyAnswer
  \/ ChordTrainer_HandleBuildFretClick
  \/ ChordTrainer_CheckBuildAnswer
  \/ ChordTrainer_Timeout

SpecChordTrainer == Mounted(ChordTrainer_initial) /\ [][ChordTrainer_Next]_vars

(***************************************************************************)
(* The quiz trainers behind the routes of App                              *)
(***************************************************************************)
\* One of the four trainers that keep a score is mounted.
Quiz_Init ==
  \/ Mounted(FretboardTrainer_initial)
  \/ Mounted(TheoryRevision_initial)
  \/ Mounted(IntervalTrainer_initial)
  \/ Mounted(ChordTrainer_initial)

Quiz_Next ==
  \/ FretboardTrainer_Next
  \/ TheoryRevision_Next
  \/ IntervalTrainer_Next
  \/ ChordTrainer_Next

SpecQuiz == Quiz_Init /\ [][Quiz_Next]_vars

\* The states the trainer mounted in state s can be left in by an event
\* whose handler accepts an answer: a click on an answer button, a click on
\* the fretboard that is inside the practice area (that meets the
\* constraint, in the interval trainer), the Check Answer button.
FretboardTrainer_answers(s) ==
  {FretboardTrainer_handleIdentifyAnswer(s, selectedNote) :
     selectedNote \in IF s.quizState = "question" /\ FretboardTrainer_identifying(s)
                      THEN AnswerSample \cup {s.currentQuestion.v.correctNote}
                      ELSE {}}
  \cup {FretboardTrainer_handleFretClick(s, [string |-> p[1], fret |-> p[2]]) :
          p \in {c \in ClickedStrings \X ClickedFrets :
                   /\ FretboardTrainer_finding(s)
                   /\ ~outsidePracticeArea(s.settings, [string |-> c[1], fret |-> c[2]])}}

TheoryRevision_answers(s) ==
  {TheoryRevision_handleAnswer(s, selectedName) :
     selectedName \in IF s.quizState = "question" /\ s.currentQuestion.some
                      THEN s.currentQuestion.v.answerOptions
                      ELSE {}}

IntervalTrainer_answers(s) ==
  {IntervalTrainer_handleIdentifyAnswer(s, selectedIntervalShortName) :
     selectedIntervalShortName \in IF s.mode = "identify" /\ IntervalTrainer_identifying(s)
                                   THEN s.currentQuestion.v.answerOptions
                                   ELSE {}}
  \cup {IntervalTrainer_handleFretClick(s, [string |-> p[1], fret |-> p[2]]) :
          p \in {c \in IntervalTrainer_ClickedStrings \X IntervalTrainer_ClickedFrets :
                   /\ s.mode = "find"
                   /\ IntervalTrainer_finding(s)
                   /\ constraintSatisfied(s.settings.targetConstraint,
                                          s.currentQuestion.v.rootPosition,
                                          [string |-> c[1], fret |-> c[2]])}}

ChordTrainer_answers(s) ==
  {ChordTrainer_handleIdentifyAnswer(s, selectedName) :
     selectedName \in IF /\ s.quizState = "question"
                         /\ s.mode = "identify"
                         /\ s.currentQuestion.some
                         /\ s.currentQuestion.v.mode = "identify"
                      THEN s.currentQuestion.v.answerOptions
                      ELSE {}}
  \cup (IF s.mode = "build" /\ ChordTrainer_building(s) /\ Len(s.selectedBuildNotes) # 0
        THEN {ChordTrainer_checkBuildAnswer(s)}
        ELSE {})

AcceptedAnswers(s) ==
  CASE s.component = "FretboardTrainer" -> FretboardTrainer_answers(s)
    [] s.component = "TheoryRevision" -> TheoryRevision_answers(s)
    [] s.component = "IntervalTrainer" -> IntervalTrainer_answers(s)
    [] s.component = "ChordTrainer" -> ChordTrainer_answers(s)
    [] OTHER -> {}

\* The state applySettings leaves, before the effects run.
Applied(s) ==
  CASE s.component = "FretboardTrainer" -> FretboardTrainer_applySettings(s)
    [] s.component = "TheoryRevision" -> TheoryRevision_applySettings(s)
    [] s.component = "IntervalTrainer" -> IntervalTrainer_applySettings(s)
    [] s.component = "ChordTrainer" -> ChordTrainer_applySettings(s)

\* The states a click on the Apply button can leave, the effects included.
AppliedSettings(s) ==
  CASE s.component = "FretboardTrainer" ->
         afterRender(Applied(s),
                     {FretboardTrainer_generateQuestion(Applied(s), position) :
                        position \in getRandomNotePosition(Applied(s).settings)})
    [] s.component = "TheoryRevision" ->
         afterRender(Applied(s), TheoryRevision_questions(Applied(s)))
    [] s.component = "IntervalTrainer" ->
         afterRender(Applied(s), IntervalTrainer_questions(Applied(s)))
    [] s.component = "ChordTrainer" ->
         afterRender(Applied(s), ChordTrainer_questions(Applied(s)))
    [] OTHER -> {}

\* What an accepted answer does to the counters and to the quiz.
AnswerCounted(s, t) ==
  /\ t.questionsAsked = s.questionsAsked + 1
  /\ t.score \in {s.score, s.score + 1}
  /\ t.quizState = "answered"

\* C27 as stated: in each quiz trainer, in every state reached by
\* apply-settings, question-generation, answer and next-question events,
\* score <= questionsAsked, every answer accepted there raises
\* questionsAsked by exactly 1 and score by at most 1 and moves the quiz to
\* 'answered', and every click on Apply (applySettings) there leaves both
\* counters 0.
C27_ApplySettingsAlwaysResets ==
  /\ ui.score <= ui.questionsAsked
  /\ \A t \in AcceptedAnswers(ui) : AnswerCounted(ui, t)
  /\ \A t \in AppliedSettings(ui) : t.score = 0 /\ t.questionsAsked = 0

\* C27 amended: in each quiz trainer, in every state reached by those
\* events, score <= questionsAsked, every answer accepted there raises
\* questionsAsked by exactly 1 and score by at most 1 and moves the quiz to
\* 'answered'; applySettings leaves both counters 0 when the settings pass
\* its checks, and leaves both counters as they are when it rejects the
\* settings.
C27_CountersOfTheQuiz ==
  /\ ui.score <= ui.questionsAsked
  /\ \A t \in AcceptedAnswers(ui) : AnswerCounted(ui, t)
  /\ \A t \in AppliedSettings(ui) :
       IF Applied(ui).quizState = "idle"
       THEN t.score = 0 /\ t.questionsAsked = 0
       ELSE t.score = ui.score /\ t.questionsAsked = ui.questionsAsked

\* Two answers were accepted, one of them correct, and applySettings then
\* rejected settings with no quality enabled: the counters are still there.
C27_Witness ==
  /\ ui.component = "TheoryRevision"
  /\ ui.quizState = "answered"
  /\ ui.questionsAsked = 2
  /\ ui.score = 1
  /\ ui.settingsError = "Please select at least one chord quality."

\* The 'X' markers of highlightedNotes at a position.
MarkersAt(notes, position) ==
  {i \in 1..Len(notes) : /\ notes[i].label = "X"
                         /\ notes[i].string = position.string
                         /\ notes[i].fret = position.fret}

\* A click of a find question of the fretboard trainer that is outside the
\* practice area.
ClickedOutside(position) ==
  /\ ui.component = "FretboardTrainer"
  /\ FretboardTrainer_finding(ui)
  /\ outsidePracticeArea(ui.settings, position)
  /\ ui' = FretboardTrainer_handleFretClick(ui, position)

\* C28: in FretboardTrainer's find mode a click on a string or fret outside
\* the configured practice area adds an 'X' marker at the clicked position
\* to highlightedNotes, and when the timer of that click fires
\* highlightedNotes holds no 'X' marker at that position any more.
C28_MarkerIsTemporary ==
  [][/\ \A st \in ClickedStrings, f \in ClickedFrets :
          ClickedOutside([string |-> st, fret |-> f]) =>
            /\ Len(ui'.highlightedNotes) = Len(ui.highlightedNotes) + 1
            /\ Len(ui'.highlightedNotes)
                 \in MarkersAt(ui'.highlightedNotes, [string |-> st, fret |-> f])
     /\ FretboardTrainer_Timeout => MarkersAt(ui'.highlightedNotes, Head(ui.timers)) = {}]_vars

\* The frets selected on a string.
SelectedFrets(selection, string) ==
  {selection[i].fret : i \in {k \in 1..Len(selection) : selection[k].string = string}}

\* A build question is shown and not answered.
BuildQuestionShown ==
  /\ ui.component = "ChordTrainer"
  /\ ui.mode = "build"
  /\ ChordTrainer_building(ui)

\* The strings a build question takes notes on.
TakesString(stringSetKey, string) ==
  stringSetKey = "any" \/ IndexOf(AVAILABLE_STRING_SET(stringSetKey), string) # -1

\* C29: in ChordTrainer's build mode, while a question is shown,
\* selectedBuildNotes holds at most one note per string and, when the
\* question's string set is not 'any', only notes on strings of that set;
\* a click on the selected fret of a string leaves no note on that string,
\* a click on another fret of it leaves the clicked fret as its only note,
\* and no click changes what is selected on the other strings.
C29_OneNotePerStringOfTheSet ==
  BuildQuestionShown =>
    LET selection == ui.selectedBuildNotes
        stringSetKey == ui.currentQuestion.v.stringSetKey
    IN /\ \A i, j \in 1..Len(selection) : selection[i].string = selection[j].string => i = j
       /\ \A i \in 1..Len(selection) : TakesString(stringSetKey, selection[i].string)
       /\ \A st \in BuildClickedStrings, f \in BuildClickedFrets :
            LET after == ChordTrainer_handleBuildFretClick(
                           ui, [string |-> st, fret |-> f]).selectedBuildNotes
            IN /\ \A other \in (0..(Len(STANDARD_TUNING) - 1)) \ {st} :
                    SelectedFrets(after, other) = SelectedFrets(selection, other)
               /\ Len(after) = Cardinality({after[i].string : i \in 1..Len(after)})
               /\ IF ~TakesString(stringSetKey, st) THEN after = selection
                  ELSE IF f \in SelectedFrets(selection, st)
                  THEN SelectedFrets(after, st) = {}
                  ELSE SelectedFrets(after, st) = {f}

\* A build question on the strings 4, 3 and 2 where a note is selected on
\* string 1 and a click on another string was turned down.
C29_Witness ==
  /\ BuildQuestionShown
  /\ ui.currentQuestion.v.stringSetKey = "432"
  /\ SelectedFrets(ui.selectedBuildNotes, 1) = {1}
  /\ ui.feedback = "Please select notes only on strings"

(***************************************************************************)
(* Metronome.tsx                                                           *)
(*                                                                         *)
(* The state of the component (isPlaying, bpm, metronomeInstance) and of   *)
(* Tone behind it: the loops that were created and not disposed, and the   *)
(* transport.  A call of startMetronome is suspended at                    *)
(* 'await Tone.start()' with the values its closure read from the render   *)
(* of the click; the suspended calls resume in the order of their clicks.  *)
(***************************************************************************)
\* The largest number of suspended calls and of loops created that are
\* followed, and the tempos the slider is moved to.  The transport of Tone
\* is stopped at first, at Tone's own tempo of 120.
MaxPending == 2
MaxLoops == 3
BpmInputs == {60, 100}

Metronome_initial ==
  [component |-> "Metronome",
   isPlaying |-> FALSE,
   bpm |-> 100,
   metronomeInstance |-> None,
   pending |-> <<>>,
   created |-> 0,
   loops |-> {},
   transport |-> [state |-> "stopped", bpm |-> 120]]

\* startMetronome up to its await: the call is suspended with what its
\* closure holds.
Metronome_startMetronome(s) ==
  [s EXCEPT !.pending = Append(@, [metronomeInstance |-> s.metronomeInstance,
                                   bpm |-> s.bpm])]

\* startMetronome after its await, for the call suspended first: the loop
\* is created when the closure holds no instance.
Metronome_resumed(s) ==
  LET closure == Head(s.pending)
      t == [s EXCEPT !.pending = Tail(@),
                     !.transport = [state |-> "started", bpm |-> closure.bpm],
                     !.isPlaying = TRUE]
  IN IF ~closure.metronomeInstance.some
     THEN [t EXCEPT !.created = @ + 1,
                    !.loops = @ \cup {s.created + 1},
                    !.metronomeInstance = Some(s.created + 1)]
     ELSE t

Metronome_stopMetronome(s) ==
  LET t == [s EXCEPT !.transport.state = "stopped", !.isPlaying = FALSE]
  IN IF s.metronomeInstance.some
     THEN [t EXCEPT !.loops = @ \ {s.metronomeInstance.v},
                    !.metronomeInstance = None]
     ELSE t

\* A click on the Start/Stop button: togglePlay.
Metronome_TogglePlay ==
  /\ ui.component = "Metronome"
  /\ Len(ui.pending) < MaxPending
  /\ Render(IF ui.isPlaying THEN Metronome_stopMetronome(ui)
            ELSE Metronome_startMetronome(ui))

\* The promise of Tone.start() resolves for the call suspended first.
Metronome_Resume ==
  /\ ui.component = "Metronome"
  /\ ui.pending # <<>>
  /\ ui.created < MaxLoops
  /\ Render(Metronome_resumed(ui))

\* The slider is moved: handleBpmChange with the number parseInt read.
Metronome_HandleBpmChange ==
  /\ ui.component = "Metronome"
  /\ \E newBpm \in BpmInputs :
       /\ newBpm # ui.bpm
       /\ Render([ui EXCEPT !.bpm = newBpm,
                            !.transport.bpm =
                               IF ui.isPlaying /\ ui.metronomeInstance.some
                               THEN newBpm ELSE @])

Metronome_Next ==
  \/ Metronome_TogglePlay
  \/ Metronome_Resume
  \/ Metronome_HandleBpmChange

SpecMetronome == Mounted(Metronome_initial) /\ [][Metronome_Next]_vars

\* C30: in Metronome, after any interleaving of Start/Stop clicks, the
\* clicks that arrive while startMetronome is suspended at its await
\* included, at most one Tone.Loop exists that was created and not
\* disposed, and whenever isPlaying is false no such loop exists.
C30_AtMostOneLoop ==
  /\ Cardinality(ui.loops) <= 1
  /\ ~ui.isPlaying => ui.loops = {}

====
